---- MODULE Spec2Model ----
(***************************************************************************)
(* Model of the MCPRouter of Remote-MCP (server package, router.ts): the   *)
(* tool, resource and prompt registries, the subscription map, the        *)
(* notification emitter and its stream subscribers, initialize, the       *)
(* listings, and the asynchronous callTool / readResource / getPrompt     *)
(* operations with their middleware chains; and of the RemoteMCPClient    *)
(* (client package, client.ts) that forwards local requests to the        *)
(* router's tRPC procedures.                                              *)
(*                                                                         *)
(* Values that travel through schemas, middleware and handlers are        *)
(* sequences of strings: a middleware stage appends its own tag, so the   *)
(* order in which stages ran and what each of them received is visible in *)
(* the value itself.                                                      *)
(***************************************************************************)
EXTENDS Integers, Sequences, FiniteSets, TLC

\* ------------------------------------------------------------------ bounds
\* total number of callTool / readResource calls started in a behaviour
MaxCalls == 2

ToolNames == {"t1", "t2"}
Uris == {"u1", "u2"}

\* argument values a caller may pass to tools/call
ArgValues == { <<>>, <<"x">>, <<"y", "junk">> }

\* ---------------------------------------------------- calculator example
\* the operations of the calculator tool's schema
CalculatorOperations == {"add", "subtract", "multiply", "divide"}

\* what a caller may write in a and in b
Numerals == {"0", "1", "2", "3", "-2", "x"}

\* A JavaScript number: NaN, or the quotient num / den in lowest terms with
\* den > 0.
NaN == [nan |-> TRUE, num |-> 0, den |-> 1]

Whole(n) == [nan |-> FALSE, num |-> n, den |-> 1]

\* Number(s) for a string s
Number(s) ==
  CASE s = "0" -> Whole(0)
    [] s = "1" -> Whole(1)
    [] s = "2" -> Whole(2)
    [] s = "3" -> Whole(3)
    [] s = "-2" -> Whole(0 - 2)
    [] s = "" -> Whole(0)
    [] OTHER -> NaN

Abs(n) == IF n < 0 THEN 0 - n ELSE n

RECURSIVE Gcd(_, _)
Gcd(m, n) == IF n = 0 THEN m ELSE Gcd(n, m % n)

\* a / b for whole a and b, b not 0
Quotient(a, b) ==
  LET g == Gcd(Abs(a), Abs(b))
      sign == IF b < 0 THEN 0 - 1 ELSE 1
  IN [nan |-> FALSE, num |-> sign * (a \div g), den |-> Abs(b) \div g]

Digit(d) ==
  CASE d = 0 -> "0" [] d = 1 -> "1" [] d = 2 -> "2" [] d = 3 -> "3"
    [] d = 4 -> "4" [] d = 5 -> "5" [] d = 6 -> "6" [] d = 7 -> "7"
    [] d = 8 -> "8" [] d = 9 -> "9"

RECURSIVE Digits(_)
Digits(n) == IF n < 10 THEN Digit(n) ELSE Digits(n \div 10) \o Digit(n % 10)

\* the digits after the point of a proper fraction, as a double prints them
FractionDigits(num, den) ==
  CASE num = 1 /\ den = 2 -> "5"
    [] num = 1 /\ den = 3 -> "3333333333333333"
    [] num = 2 /\ den = 3 -> "6666666666666666"

\* `${result}`: the text of a number
NumberText(x) ==
  IF x.nan THEN "NaN"
  ELSE LET whole == Abs(x.num) \div x.den
           rest == Abs(x.num) % x.den
           sign == IF x.num < 0 THEN "-" ELSE ""
       IN IF rest = 0 THEN sign \o Digits(whole)
          ELSE sign \o Digits(whole) \o "." \o FractionDigits(rest, x.den)

\* a calculator that divides without looking at the divisor
CalculatorHandler_noZeroCheck(args) ==
  LET a == Number(args[2])
      b == Number(args[3])
      result ==
        IF a.nan \/ b.nan THEN NaN
        ELSE CASE args[1] = "add" -> Whole(a.num + b.num)
               [] args[1] = "subtract" -> Whole(a.num - b.num)
               [] args[1] = "multiply" -> Whole(a.num * b.num)
               [] args[1] = "divide" ->
                    IF b.num = 0 THEN NaN ELSE Quotient(a.num, b.num)
  IN [status |-> "ok",
      value |-> << [type |-> "text", text |-> NumberText(result)] >>]

\* the handler of the calculator tool: a and b are turned into numbers, a
\* zero divisor throws, and the result is returned as one text content
CalculatorHandler(args) ==
  LET a == Number(args[2])
      b == Number(args[3])
  IN IF args[1] = "divide" /\ ~b.nan /\ b.num = 0
     THEN [status |-> "HandlerError", value |-> <<>>]
     ELSE LET result ==
                IF a.nan \/ b.nan THEN NaN
                ELSE CASE args[1] = "add" -> Whole(a.num + b.num)
                       [] args[1] = "subtract" -> Whole(a.num - b.num)
                       [] args[1] = "multiply" -> Whole(a.num * b.num)
                       [] args[1] = "divide" -> Quotient(a.num, b.num)
          IN [status |-> "ok",
              value |-> << [type |-> "text", text |-> NumberText(result)] >>]

\* the arguments the calculator tool may be called with: {operation, a, b},
\* with an operation the schema does not list among them
CalculatorArgs ==
  { <<op, a, b>> : op \in CalculatorOperations \cup {"power"},
                   a \in Numerals, b \in Numerals }

\* ------------------------------------------------------- schemas (zod)
\* "strict" accepts exactly <<"x">>; "strip" accepts every non-empty value and
\* returns it with the unknown trailing keys removed (zod objects strip
\* unknown keys), so the parsed value can differ from the raw one.
SchemaKinds == {"strict", "strip"}

SchemaAccepts(schema, args) ==
  IF schema = "calculator"
  THEN Len(args) = 3 /\ args[1] \in CalculatorOperations
  ELSE IF schema = "strict" THEN args = <<"x">> ELSE Len(args) >= 1

SchemaParse(schema, args) ==
  IF schema \in {"strict", "calculator"} THEN args ELSE <<args[1]>>

\* ------------------------------------------------- middleware and handlers
\* A stage receives a value and resolves to a value, or rejects.
StageKinds == {"a", "b", "reject"}

StageRejects(stage, v) == stage = "reject"

StageOutput(stage, v) == Append(v, stage)

HandlerKinds == {"h1", "h2"}

\* h1 answers with its input; h2 throws on inputs that start with "y" (as the
\* calculator's divide throws on a zero divisor) and otherwise answers with
\* its input tagged.
HandlerResult(h, v) ==
  IF h = "calculator" THEN CalculatorHandler(v)
  ELSE IF h = "h1" THEN [status |-> "ok", value |-> v]
  ELSE IF Len(v) > 0 /\ v[1] = "y"
       THEN [status |-> "HandlerError", value |-> <<>>]
       ELSE [status |-> "ok", value |-> Append(v, "h2")]

ReadHandlerKinds == {"r1", "r2"}

\* a read handler takes no argument; its content depends on the handler only
ReadHandlerResult(h) == [status |-> "ok", value |-> <<"content", h>>]

\* what addTool stores under a name: {definition, handler}
ToolEntries ==
  { [definition |-> [description |-> "d1", schema |-> "strict",
                     middlewares |-> <<>>],
     handler |-> "h1"],
    [definition |-> [description |-> "d2", schema |-> "strip",
                     middlewares |-> <<"a", "b">>],
     handler |-> "h2"],
    [definition |-> [description |-> "d3", schema |-> "strict",
                     middlewares |-> <<"b", "reject">>],
     handler |-> "h1"] }

\* the calculator tool as the example server registers it
CalculatorEntry ==
  [definition |-> [description |-> "Perform basic calculations",
                   schema |-> "calculator", middlewares |-> <<>>],
   handler |-> "calculator"]

\* what a resource's listHandler resolves to: the items, each with fields of
\* its own
ListHandlerKinds == {"l0", "l1", "l2"}

ListHandlerResult(h) ==
  IF h = "l0" THEN <<>>
  ELSE IF h = "l1"
  THEN << [id |-> "i1", uri |-> "own", name |-> "own",
           description |-> "own", mimeType |-> "own"] >>
  ELSE << [id |-> "i1", uri |-> "own", name |-> "own",
           description |-> "own", mimeType |-> "own"],
          [id |-> "i2", uri |-> "own", name |-> "own",
           description |-> "own", mimeType |-> "own"] >>

\* the ResourceDefinition values addResource is called with; description and
\* mimeType are optional and "undefined" where the definition has none
ResourceDefs ==
  { [name |-> "n1", description |-> "undefined", mimeType |-> "text/plain",
     subscribe |-> TRUE,  middlewares |-> <<>>,
     readHandler |-> "r1", listHandler |-> "l1"],
    [name |-> "n2", description |-> "d2", mimeType |-> "application/json",
     subscribe |-> TRUE,  middlewares |-> <<"b", "a">>,
     readHandler |-> "r2", listHandler |-> "l2"],
    [name |-> "n3", description |-> "d3", mimeType |-> "undefined",
     subscribe |-> FALSE, middlewares |-> <<"a">>,
     readHandler |-> "r1", listHandler |-> "l0"] }

PromptNames == {"p1", "p2"}

\* the arguments a caller may pass to prompts/get: the names it supplies
PromptArgValues == { <<>>, <<"topic">>, <<"topic", "style">> }

PromptHandlerKinds == {"g1", "g2"}

\* a prompt handler answers with messages built from the arguments it is given
PromptHandlerResult(h, v) == [status |-> "ok", value |-> <<"msg", h>> \o v]

\* what addPrompt stores under a name: {definition, handler}
PromptEntries ==
  { [definition |-> [description |-> "q1",
                     arguments |-> << [name |-> "topic", required |-> TRUE],
                                      [name |-> "style", required |-> TRUE] >>,
                     middlewares |-> <<"a">>],
     handler |-> "g1"],
    [definition |-> [description |-> "q2",
                     arguments |-> << [name |-> "topic", required |-> FALSE] >>,
                     middlewares |-> <<>>],
     handler |-> "g2"],
    [definition |-> [description |-> "q3",
                     arguments |-> << [name |-> "style", required |-> FALSE],
                                      [name |-> "topic", required |-> TRUE] >>,
                     middlewares |-> <<"b", "a">>],
     handler |-> "g1"] }

\* a prompt whose first required argument has the name of a property every
\* object has
InheritedNameEntry ==
  [definition |-> [description |-> "q4",
                   arguments |-> << [name |-> "constructor", required |-> TRUE],
                                    [name |-> "topic", required |-> TRUE] >>,
                   middlewares |-> <<"a">>],
   handler |-> "g2"]

\* the subscribers of notifications/stream
Subscribers == {"s1", "s2"}

\* --------------------------------------------------------------- JS Map
\* A Map is a sequence of entries in insertion order; set() on an existing
\* key replaces the value in place, set() on a new key appends.
MapHas(m, k) == \E i \in 1..Len(m) : m[i].key = k

MapGet(m, k) == m[CHOOSE i \in 1..Len(m) : m[i].key = k].val

\* set() that keeps the value an existing key already has
MapSet_keepFirst(m, k, v) ==
  IF MapHas(m, k) THEN m ELSE Append(m, [key |-> k, val |-> v])

\* set() that moves an existing key to the end of the order
MapSet_moveToEnd(m, k, v) ==
  Append(SelectSeq(m, LAMBDA e : e.key # k), [key |-> k, val |-> v])

MapSet(m, k, v) ==
  IF MapHas(m, k)
  THEN [i \in 1..Len(m) |-> IF m[i].key = k THEN [key |-> k, val |-> v] ELSE m[i]]
  ELSE Append(m, [key |-> k, val |-> v])

MapDelete(m, k) == SelectSeq(m, LAMBDA e : e.key # k)

MapKeys(m) == { m[i].key : i \in 1..Len(m) }

\* ---------------------------------------------------------------- state
VARIABLES
  capabilities,   \* this.capabilities, fixed by the constructor
  implementation, \* this.implementation: the server's name and version
  tools,          \* this.tools: Map name -> {definition, handler}
  resources,      \* this.resources: Map uri -> ResourceDefinition
  subscriptions,  \* this.subscriptions: Map uri -> Set of subscriber ids
  streams,        \* notifications/stream subscriptions: id -> listener state
  calls,          \* the asynchronous router calls started so far
  last,           \* outcome of the latest call that ran without an await
  prompts,        \* this.prompts: Map name -> {definition, handler}
  options,        \* the MCPRouterOptions the constructor was called with
  registered,     \* history: keys in first-registration order, latest values
  history,        \* history: registrations made since a listener first attached
  session,        \* the client's lifecycle state
  requests,       \* the local requests the client has been handed
  errorLog,       \* the invocations of options.onError
  local,          \* the RemoteMCPClient: options, link, handlers, sent messages
  logger          \* this.logger, fixed by the constructor

\* what the constructor sets and nothing assigns afterwards
fixedVars == <<capabilities, implementation, options, logger>>

\* the state of the RemoteMCPClient
clientVars == <<session, requests, errorLog, local>>

vars == <<capabilities, implementation, tools, resources, subscriptions,
          streams, calls, last, prompts, options, registered, history,
          session, requests, errorLog, local, logger>>

\* ---------------------------------------------------------- constructor
\* options.capabilities of the constructor: absent, or overrides of the
\* tools, resources and prompts capabilities with these flags
CapabilityOptions ==
  { [given |-> FALSE, subscribe |-> FALSE, listChanged |-> FALSE],
    [given |-> TRUE,  subscribe |-> TRUE,  listChanged |-> TRUE],
    [given |-> TRUE,  subscribe |-> FALSE, listChanged |-> TRUE] }

\* the MCPRouterOptions a router is constructed with
RouterOptions ==
  { [name |-> "calculator", version |-> "1.0.0", capabilities |-> o] :
      o \in CapabilityOptions }

\* a constructor whose default declares resource subscriptions
Constructor_subscribeByDefault(o) ==
  [ tools     |-> IF o.given
                  THEN [listChanged |-> o.listChanged]
                  ELSE [listChanged |-> FALSE],
    resources |-> IF o.given
                  THEN [subscribe |-> o.subscribe, listChanged |-> o.listChanged]
                  ELSE [subscribe |-> TRUE, listChanged |-> FALSE],
    prompts   |-> IF o.given
                  THEN [listChanged |-> o.listChanged]
                  ELSE [listChanged |-> FALSE] ]

Constructor(o) ==
  [ tools     |-> IF o.given
                  THEN [listChanged |-> o.listChanged]
                  ELSE [listChanged |-> FALSE],
    resources |-> IF o.given
                  THEN [subscribe |-> o.subscribe, listChanged |-> o.listChanged]
                  ELSE [subscribe |-> FALSE, listChanged |-> FALSE],
    prompts   |-> IF o.given
                  THEN [listChanged |-> o.listChanged]
                  ELSE [listChanged |-> FALSE] ]

Implementation(o) == [name |-> o.name, version |-> o.version]

\* ----------------------------------------------------------------- logger
\* enum LogLevel
DEBUG == 0
INFO == 1
WARN == 2
ERROR == 3

LogLevels == {DEBUG, INFO, WARN, ERROR}

\* an optional option: <<>> when it is not given, <<v>> when it is v
Given(o, field) == field \in DOMAIN o /\ o[field] # <<>>

\* a value in a boolean context: of the log levels only DEBUG, 0, is falsy
Truthy(level) == level # 0

\* new ConsoleLogger({level, prefix})
ConsoleLogger(o) == [kind |-> "console", level |-> o.level, prefix |-> o.prefix]

\* this.logger = options.logger || new ConsoleLogger({level:
\* options.logLevel || LogLevel.INFO, prefix: options.name})
RouterLogger(o) ==
  IF Given(o, "logger") THEN o.logger[1]
  ELSE ConsoleLogger([level  |-> IF Given(o, "logLevel") /\ Truthy(o.logLevel[1])
                                 THEN o.logLevel[1] ELSE INFO,
                      prefix |-> o.name])

\* the options a router may be constructed with, logLevel and logger included
LoggerRouterOptions ==
  { [name |-> "example-server", version |-> "1.0.0", capabilities |-> c,
     logLevel |-> l, logger |-> g] :
      c \in CapabilityOptions,
      l \in {<<>>} \cup { <<level>> : level \in LogLevels },
      g \in {<<>>, <<[kind |-> "custom"]>>} }

\* debug, info, warn, error of the logger: whether a message of this level
\* goes to the console; a logger of the caller's own is handed every message
LoggerAccepts(lg, level) ==
  IF lg.kind = "console" THEN lg.level <= level ELSE TRUE

\* the registries and the subscription map as a call finds them
Snapshot(t, r, s) == [tools |-> t, resources |-> r, subscriptions |-> s]

NoCall == [op |-> "none", key |-> "", outcome |-> "none", message |-> "",
           before |-> Snapshot(<<>>, <<>>, <<>>), result |-> <<>>]

\* nothing registered yet
NoneRegistered == [order |-> <<>>, latest |-> <<>>]

\* ----------------------------------------------------------- entry point
\* The name of an environment variable is the sequence of its parts, each
\* "_" being a part of its own.
HeaderPrefix == <<"HTTP", "_", "HEADER", "_">>

\* what toLowerCase() makes of a part
LowerCase(part) ==
  CASE part = "Authorization" -> "authorization"
    [] part = "X" -> "x"
    [] part = "API" -> "api"
    [] part = "KEY" -> "key"
    [] OTHER -> part

\* process.env as the client's entry point may find it
Environments ==
  { <<>>,
    << [key |-> <<"REMOTE", "_", "MCP", "_", "URL">>, val |-> "http://remote:9512"],
       [key |-> HeaderPrefix \o <<"_", "Authorization">>, val |-> "Bearer tok"] >>,
    << [key |-> HeaderPrefix \o <<"X", "_", "API", "_", "KEY">>, val |-> "k1"] >> }

StartsWith(key, prefix) ==
  Len(key) >= Len(prefix) /\ SubSeq(key, 1, Len(prefix)) = prefix

\* key.substring('HTTP_HEADER_'.length).toLowerCase().replace(/_/g, '-')
HeaderKey(key) ==
  [i \in 1..(Len(key) - Len(HeaderPrefix)) |->
     LET part == key[i + Len(HeaderPrefix)]
     IN IF part = "_" THEN "-" ELSE LowerCase(part)]

\* the reduce over the keys that start with HTTP_HEADER_
RECURSIVE EnvHeaders(_, _)
EnvHeaders(env, n) ==
  IF n = 0 THEN <<>>
  ELSE LET headers == EnvHeaders(env, n - 1)
       IN IF StartsWith(env[n].key, HeaderPrefix)
          THEN MapSet(headers, HeaderKey(env[n].key), env[n].val)
          ELSE headers

\* an option that was not given
Absent == "undefined"

\* the options the entry point constructs its client with
EntryOptions(env) ==
  [remoteUrl |-> IF MapHas(env, <<"REMOTE", "_", "MCP", "_", "URL">>)
                    /\ MapGet(env, <<"REMOTE", "_", "MCP", "_", "URL">>) # ""
                 THEN MapGet(env, <<"REMOTE", "_", "MCP", "_", "URL">>)
                 ELSE "http://localhost:9512",
   headers   |-> EnvHeaders(env, Len(env)),
   authToken |-> Absent,
   onError   |-> Absent]

\* the options a client may be constructed with: by the entry point, or by a
\* program that passes a token and a callback of its own
ClientOptions ==
  { EntryOptions(env) : env \in Environments }
  \cup { [remoteUrl |-> "http://localhost:9512", headers |-> <<>>,
          authToken |-> "tok", onError |-> "custom"] }

\* the client's constructor: the link of the tRPC client with its static
\* headers, and this.options with the default onError under the given ones
RemoteMCPClient(o) ==
  [options  |-> [o EXCEPT !.onError = IF @ = Absent THEN "default" ELSE @],
   link     |-> [url |-> o.remoteUrl,
                 headers |-> IF o.authToken # Absent /\ o.authToken # ""
                             THEN << [key |-> <<"Authorization">>,
                                      val |-> "Bearer " \o o.authToken] >>
                             ELSE <<>>],
   handlers |-> {},
   outbox   |-> <<>>]

\* a router as constructed, and a client not yet constructed
InitRouter ==
  /\ options \in RouterOptions
  /\ capabilities = Constructor(options.capabilities)
  /\ implementation = Implementation(options)
  /\ tools = <<>>
  /\ resources = <<>>
  /\ prompts = <<>>
  /\ subscriptions = <<>>
  /\ streams = <<>>
  /\ calls = <<>>
  /\ last = NoCall
  /\ registered = [tools |-> NoneRegistered, resources |-> NoneRegistered,
                   prompts |-> NoneRegistered]
  /\ history = <<>>
  /\ session = "Uninitialized"
  /\ requests = <<>>
  /\ errorLog = <<>>
  /\ logger = RouterLogger(options)

\* the client is the one the entry point constructs in an environment that
\* sets none of its variables
Init == InitRouter /\ local = RemoteMCPClient(EntryOptions(<<>>))

\* ------------------------------------------------------ notification bus
\* emit that a listener with an unconsumed event misses
EmitNotification_dropWhenBusy(s, n) ==
  [i \in DOMAIN s |->
     IF s[i].attached /\ s[i].queue = <<>>
     THEN [s[i] EXCEPT !.queue = Append(@, n)] ELSE s[i]]

\* emit that hands the event to one listener only
EmitNotification_firstOnly(s, n) ==
  [i \in DOMAIN s |->
     IF s[i].attached /\ \A j \in DOMAIN s : s[j].attached => s[i].from <= s[j].from
     THEN [s[i] EXCEPT !.queue = Append(@, n)] ELSE s[i]]

\* events.emit('notification', n): the listener of every attached stream is
\* called with n and queues it for its consumer
EmitNotification(s, n) ==
  [i \in DOMAIN s |->
     IF s[i].attached THEN [s[i] EXCEPT !.queue = Append(@, n)] ELSE s[i]]

\* --------------------------------------------------------- registration
\* history of a registry: the key joins the order at its first registration,
\* and the value it was registered with last is the latest
Register(reg, k, v) ==
  [order  |-> IF \E i \in 1..Len(reg.order) : reg.order[i] = k
              THEN reg.order ELSE Append(reg.order, k),
   latest |-> [x \in DOMAIN reg.latest \cup {k} |->
                 IF x = k THEN v ELSE reg.latest[x]]]

\* history of the bus, kept from the first notifications/stream subscription
Recorded(h, s, op, k) ==
  IF DOMAIN s = {} THEN h ELSE Append(h, [op |-> op, key |-> k])

\* addTool announcing the change only when the tools.listChanged capability
\* is declared
addTool_ifListChanged(name, entry) ==
  /\ tools' = MapSet(tools, name, entry)
  /\ streams' = IF capabilities.tools.listChanged
                THEN EmitNotification(streams, "notifications/tools/list_changed")
                ELSE streams
  /\ registered' = [registered EXCEPT !.tools = Register(@, name, entry)]
  /\ history' = Recorded(history, streams, "addTool", name)
  /\ UNCHANGED <<fixedVars, resources, prompts, subscriptions, calls, last,
                 clientVars>>

addTool(name, entry) ==
  /\ tools' = MapSet(tools, name, entry)
  /\ streams' = EmitNotification(streams, "notifications/tools/list_changed")
  /\ registered' = [registered EXCEPT !.tools = Register(@, name, entry)]
  /\ history' = Recorded(history, streams, "addTool", name)
  /\ UNCHANGED <<fixedVars, resources, prompts, subscriptions, calls, last,
                 clientVars>>

addResource(uri, def) ==
  /\ resources' = MapSet(resources, uri, def)
  /\ streams' = EmitNotification(streams, "notifications/resources/list_changed")
  /\ registered' = [registered EXCEPT !.resources = Register(@, uri, def)]
  /\ history' = Recorded(history, streams, "addResource", uri)
  /\ UNCHANGED <<fixedVars, tools, prompts, subscriptions, calls, last,
                 clientVars>>

addPrompt(name, entry) ==
  /\ prompts' = MapSet(prompts, name, entry)
  /\ streams' = EmitNotification(streams, "notifications/prompts/list_changed")
  /\ registered' = [registered EXCEPT !.prompts = Register(@, name, entry)]
  /\ history' = Recorded(history, streams, "addPrompt", name)
  /\ UNCHANGED <<fixedVars, tools, resources, subscriptions, calls, last,
                 clientVars>>

\* ------------------------------------------------- notifications/stream
\* The subscription's generator starts: on(events, 'notification') attaches a
\* listener that queues every event emitted from now on.
StreamAttach(s) ==
  /\ s \notin DOMAIN streams
  /\ streams' = streams @@ (s :> [attached |-> TRUE, from |-> Len(history),
                                  queue |-> <<>>, received |-> <<>>])
  /\ UNCHANGED <<fixedVars, tools, resources, prompts, subscriptions, calls,
                 last, registered, history, clientVars>>

\* for await (const event of on(...)) yield* event: the oldest queued event is
\* handed to the subscriber
StreamYield(s) ==
  /\ s \in DOMAIN streams
  /\ streams[s].attached
  /\ streams[s].queue # <<>>
  /\ streams' = [streams EXCEPT ![s] =
                   [@ EXCEPT !.received = Append(@, Head(streams[s].queue)),
                             !.queue = Tail(@)]]
  /\ UNCHANGED <<fixedVars, tools, resources, prompts, subscriptions, calls,
                 last, registered, history, clientVars>>

\* the subscriber ends the subscription: it is handed nothing from then on
StreamDetach(s) ==
  /\ s \in DOMAIN streams
  /\ streams[s].attached
  /\ streams' = [streams EXCEPT ![s] = [@ EXCEPT !.attached = FALSE,
                                                 !.queue = <<>>]]
  /\ UNCHANGED <<fixedVars, tools, resources, prompts, subscriptions, calls,
                 last, registered, history, clientVars>>

\* ------------------------------------------------------ subscriptions
\* subscribeToResource with the registry lookup moved before the capability
\* check
subscribeToResource_lookupFirst(caps, res, subs, uri) ==
  IF ~MapHas(res, uri)
  THEN [outcome |-> "NotFound", message |-> "Resource not found", subs |-> subs]
  ELSE IF ~caps.resources.subscribe
  THEN [outcome |-> "Unsupported",
        message |-> "Resource subscription not supported", subs |-> subs]
  ELSE IF ~MapGet(res, uri).subscribe
  THEN [outcome |-> "Unsupported",
        message |-> "Resource does not support subscriptions", subs |-> subs]
  ELSE LET s1 == IF ~MapHas(subs, uri) THEN MapSet(subs, uri, {}) ELSE subs
       IN [outcome |-> "ok", message |-> "",
           subs |-> MapSet(s1, uri, MapGet(s1, uri) \cup {uri})]

\* subscribeToResource without the registry lookup: an unknown uri passes
subscribeToResource_noLookup(caps, res, subs, uri) ==
  IF ~caps.resources.subscribe
  THEN [outcome |-> "Unsupported",
        message |-> "Resource subscription not supported", subs |-> subs]
  ELSE IF MapHas(res, uri) /\ ~MapGet(res, uri).subscribe
  THEN [outcome |-> "Unsupported",
        message |-> "Resource does not support subscriptions", subs |-> subs]
  ELSE LET s1 == IF ~MapHas(subs, uri) THEN MapSet(subs, uri, {}) ELSE subs
       IN [outcome |-> "ok", message |-> "",
           subs |-> MapSet(s1, uri, MapGet(s1, uri) \cup {uri})]

\* subscribeToResource recording every call as an entry of its own
subscribeToResource_append(caps, res, subs, uri) ==
  IF ~caps.resources.subscribe
  THEN [outcome |-> "Unsupported",
        message |-> "Resource subscription not supported", subs |-> subs]
  ELSE IF ~MapHas(res, uri)
  THEN [outcome |-> "NotFound", message |-> "Resource not found", subs |-> subs]
  ELSE IF ~MapGet(res, uri).subscribe
  THEN [outcome |-> "Unsupported",
        message |-> "Resource does not support subscriptions", subs |-> subs]
  ELSE [outcome |-> "ok", message |-> "",
        subs |-> Append(subs, [key |-> uri, val |-> {uri}])]

\* subscribeToResource recording a new subscriber identity with every call
subscribeToResource_counted(caps, res, subs, uri) ==
  IF ~caps.resources.subscribe
  THEN [outcome |-> "Unsupported",
        message |-> "Resource subscription not supported", subs |-> subs]
  ELSE IF ~MapHas(res, uri)
  THEN [outcome |-> "NotFound", message |-> "Resource not found", subs |-> subs]
  ELSE IF ~MapGet(res, uri).subscribe
  THEN [outcome |-> "Unsupported",
        message |-> "Resource does not support subscriptions", subs |-> subs]
  ELSE LET s1 == IF ~MapHas(subs, uri) THEN MapSet(subs, uri, {}) ELSE subs
       IN [outcome |-> "ok", message |-> "",
           subs |-> MapSet(s1, uri,
                           MapGet(s1, uri)
                             \cup {IF MapGet(s1, uri) = {} THEN uri ELSE "again"})]

\* subscribeToResource(uri): the outcome and the subscription map it leaves
subscribeToResource(caps, res, subs, uri) ==
  IF ~caps.resources.subscribe
  THEN [outcome |-> "Unsupported",
        message |-> "Resource subscription not supported", subs |-> subs]
  ELSE IF ~MapHas(res, uri)
  THEN [outcome |-> "NotFound", message |-> "Resource not found", subs |-> subs]
  ELSE IF ~MapGet(res, uri).subscribe
  THEN [outcome |-> "Unsupported",
        message |-> "Resource does not support subscriptions", subs |-> subs]
  ELSE LET s1 == IF ~MapHas(subs, uri) THEN MapSet(subs, uri, {}) ELSE subs
       IN [outcome |-> "ok", message |-> "",
           subs |-> MapSet(s1, uri, MapGet(s1, uri) \cup {uri})]

\* unsubscribeFromResource throwing when the uri has no subscription entry
unsubscribeFromResource_throws(subs, uri) ==
  IF MapHas(subs, uri)
  THEN LET subscribers == MapGet(subs, uri) \ {uri}
       IN [outcome |-> "ok", message |-> "",
           subs |-> IF Cardinality(subscribers) = 0
                    THEN MapDelete(subs, uri)
                    ELSE MapSet(subs, uri, subscribers)]
  ELSE [outcome |-> "NotFound", message |-> "Resource not found", subs |-> subs]

\* unsubscribeFromResource without the deletion of an emptied entry
unsubscribeFromResource_noDelete(subs, uri) ==
  IF MapHas(subs, uri)
  THEN [outcome |-> "ok", message |-> "",
        subs |-> MapSet(subs, uri, MapGet(subs, uri) \ {uri})]
  ELSE [outcome |-> "ok", message |-> "", subs |-> subs]

\* unsubscribeFromResource creating the entry it does not find
unsubscribeFromResource_getOrCreate(subs, uri) ==
  IF MapHas(subs, uri)
  THEN LET subscribers == MapGet(subs, uri) \ {uri}
       IN [outcome |-> "ok", message |-> "",
           subs |-> IF Cardinality(subscribers) = 0
                    THEN MapDelete(subs, uri)
                    ELSE MapSet(subs, uri, subscribers)]
  ELSE [outcome |-> "ok", message |-> "", subs |-> MapSet(subs, uri, {})]

\* unsubscribeFromResource emptying the whole subscription map
unsubscribeFromResource_clearsAll(subs, uri) ==
  [outcome |-> "ok", message |-> "", subs |-> <<>>]

\* unsubscribeFromResource(uri): it has no failing path
unsubscribeFromResource(subs, uri) ==
  IF MapHas(subs, uri)
  THEN LET subscribers == MapGet(subs, uri) \ {uri}
       IN [outcome |-> "ok", message |-> "",
           subs |-> IF Cardinality(subscribers) = 0
                    THEN MapDelete(subs, uri)
                    ELSE MapSet(subs, uri, subscribers)]
  ELSE [outcome |-> "ok", message |-> "", subs |-> subs]

Subscribe(uri) ==
  LET r == subscribeToResource(capabilities, resources, subscriptions, uri)
  IN /\ subscriptions' = r.subs
     /\ last' = [op |-> "subscribe", key |-> uri, outcome |-> r.outcome,
                 message |-> r.message,
                 before |-> Snapshot(tools, resources, subscriptions),
                 result |-> <<>>]
     /\ UNCHANGED <<fixedVars, tools, resources, prompts, streams, calls,
                    registered, history, clientVars>>

Unsubscribe(uri) ==
  LET r == unsubscribeFromResource(subscriptions, uri)
  IN /\ subscriptions' = r.subs
     /\ last' = [op |-> "unsubscribe", key |-> uri, outcome |-> r.outcome,
                 message |-> r.message,
                 before |-> Snapshot(tools, resources, subscriptions),
                 result |-> <<>>]
     /\ UNCHANGED <<fixedVars, tools, resources, prompts, streams, calls,
                    registered, history, clientVars>>

\* ------------------------------------------- asynchronous calls (promises)
\* One entry of a call's log: the schema ("parse"), a middleware stage ("mw")
\* or the bound handler ("handler") was invoked with input; returned is set
\* when the invocation has settled.
Invocation(kind, name, input) ==
  [kind |-> kind, name |-> name, input |-> input, returned |-> FALSE]

Returned(kind, name, input) ==
  [kind |-> kind, name |-> name, input |-> input, returned |-> TRUE]

\* A call that threw before its first await, with what it had invoked by then.
Failed(op, key, args, outcome, log) ==
  [op |-> op, key |-> key, args |-> args, middlewares |-> <<>>, handler |-> "",
   pc |-> "done", idx |-> 0, cur |-> <<>>, log |-> log,
   outcome |-> outcome, result |-> <<>>]

\* A call that passed its checks and holds the entry it looked up.
Started(op, key, args, middlewares, handler, log) ==
  [op |-> op, key |-> key, args |-> args, middlewares |-> middlewares,
   handler |-> handler, pc |-> "start", idx |-> 0, cur |-> <<>>, log |-> log,
   outcome |-> "pending", result |-> <<>>]

\* a read handler that is handed the context the chain produced
HandlerInput_context(op, v) == v

\* what the bound handler is called with: handler(result) for a tool,
\* resource.readHandler() for a resource
HandlerInput(op, v) == IF op = "readResource" THEN <<>> ELSE v

\* InvokeNext handing the handler the call's raw arguments instead of the
\* value the chain produced
InvokeNext_rawArgs(c, i, v) ==
  IF i <= Len(c.middlewares)
  THEN [c EXCEPT !.pc = "mw", !.idx = i, !.cur = v,
          !.log = Append(@, Invocation("mw", c.middlewares[i], v))]
  ELSE [c EXCEPT !.pc = "handler", !.idx = i, !.cur = v,
          !.log = Append(@, Invocation("handler", c.handler,
                                       HandlerInput(c.op, c.args)))]

\* The body of the for-of loop over the middlewares followed by the handler
\* call: with stages 1..i-1 done and v the current value, stage i is invoked
\* with v, or, past the last stage, the handler is.
InvokeNext(c, i, v) ==
  IF i <= Len(c.middlewares)
  THEN [c EXCEPT !.pc = "mw", !.idx = i, !.cur = v,
          !.log = Append(@, Invocation("mw", c.middlewares[i], v))]
  ELSE [c EXCEPT !.pc = "handler", !.idx = i, !.cur = v,
          !.log = Append(@, Invocation("handler", c.handler,
                                       HandlerInput(c.op, v)))]

\* callTool without the schema check: the raw arguments go down the chain
callToolStart_noParse(t, name, args) ==
  IF ~MapHas(t, name)
  THEN Failed("callTool", name, args, "NotFound", <<>>)
  ELSE LET tool == MapGet(t, name)
       IN InvokeNext(Started("callTool", name, args,
                             tool.definition.middlewares, tool.handler, <<>>),
                     1, args)

\* callTool rejecting empty arguments before it looks the tool up
callToolStart_parseFirst(t, name, args) ==
  IF args = <<>>
  THEN Failed("callTool", name, args, "ValidationError",
              <<Returned("parse", "strip", args)>>)
  ELSE IF ~MapHas(t, name)
  THEN Failed("callTool", name, args, "NotFound", <<>>)
  ELSE LET tool == MapGet(t, name)
           parse == <<Returned("parse", tool.definition.schema, args)>>
       IN IF ~SchemaAccepts(tool.definition.schema, args)
          THEN Failed("callTool", name, args, "ValidationError", parse)
          ELSE InvokeNext(Started("callTool", name, args,
                                  tool.definition.middlewares, tool.handler,
                                  parse),
                          1, SchemaParse(tool.definition.schema, args))

\* callTool up to its first await
callToolStart(t, name, args) ==
  IF ~MapHas(t, name)
  THEN Failed("callTool", name, args, "NotFound", <<>>)
  ELSE LET tool == MapGet(t, name)
           parse == <<Returned("parse", tool.definition.schema, args)>>
       IN IF ~SchemaAccepts(tool.definition.schema, args)
          THEN Failed("callTool", name, args, "ValidationError", parse)
          ELSE InvokeNext(Started("callTool", name, args,
                                  tool.definition.middlewares, tool.handler,
                                  parse),
                          1, SchemaParse(tool.definition.schema, args))

\* readResource without the registry check: an unknown uri is read with an
\* empty definition
readResourceStart_noLookup(r, uri) ==
  IF ~MapHas(r, uri)
  THEN InvokeNext(Started("readResource", uri, <<uri>>, <<>>, "r1", <<>>),
                  1, <<uri>>)
  ELSE LET resource == MapGet(r, uri)
       IN InvokeNext(Started("readResource", uri, <<uri>>,
                             resource.middlewares, resource.readHandler, <<>>),
                     1, <<uri>>)

\* readResource up to its first await
readResourceStart(r, uri) ==
  IF ~MapHas(r, uri)
  THEN Failed("readResource", uri, <<uri>>, "NotFound", <<>>)
  ELSE LET resource == MapGet(r, uri)
       IN InvokeNext(Started("readResource", uri, <<uri>>,
                             resource.middlewares, resource.readHandler, <<>>),
                     1, <<uri>>)

\* property names every object inherits from Object.prototype
ObjectPrototypeNames == {"constructor", "toString", "valueOf", "hasOwnProperty"}

\* name in args: args is a plain object, and the in operator finds the
\* properties it inherits as well as its own
In(name, args) ==
  \/ \E j \in 1..Len(args) : args[j] = name
  \/ name \in ObjectPrototypeNames

\* getPrompt up to its first await: the lookup, the required arguments in
\* declaration order, then the chain
getPromptStart(p, name, args) ==
  IF ~MapHas(p, name)
  THEN Failed("getPrompt", name, args, "NotFound", <<>>)
  ELSE LET prompt == MapGet(p, name)
           declared == prompt.definition.arguments
           missing == { i \in 1..Len(declared) :
                          declared[i].required /\ ~In(declared[i].name, args) }
       IN IF missing # {}
          THEN LET first == CHOOSE i \in missing : \A j \in missing : i <= j
               IN [Failed("getPrompt", name, args, "MissingArgument", <<>>)
                     EXCEPT !.result = <<declared[first].name>>]
          ELSE InvokeNext(Started("getPrompt", name, args,
                                  prompt.definition.middlewares, prompt.handler,
                                  <<>>),
                          1, args)

MarkReturned(log) == [log EXCEPT ![Len(log)].returned = TRUE]

\* a loop that looks the tool up again after each stage and goes on with
\* the chain and the handler registered by then
StageSettles_rereads(c) ==
  LET stage == c.middlewares[c.idx]
      now == IF c.op = "callTool" /\ MapHas(tools, c.key)
             THEN [c EXCEPT !.middlewares = MapGet(tools, c.key).definition.middlewares,
                            !.handler = MapGet(tools, c.key).handler]
             ELSE c
  IN IF StageRejects(stage, c.cur)
     THEN [c EXCEPT !.pc = "done", !.outcome = "MiddlewareError",
                    !.log = MarkReturned(@)]
     ELSE InvokeNext([now EXCEPT !.log = MarkReturned(@)], c.idx + 1,
                     StageOutput(stage, c.cur))

\* the awaited middleware stage settles: the loop goes on, or the call rejects
StageSettles(c) ==
  LET stage == c.middlewares[c.idx]
  IN IF StageRejects(stage, c.cur)
     THEN [c EXCEPT !.pc = "done", !.outcome = "MiddlewareError",
                    !.log = MarkReturned(@)]
     ELSE InvokeNext([c EXCEPT !.log = MarkReturned(@)], c.idx + 1,
                     StageOutput(stage, c.cur))

\* the handler's promise settles and with it the call's
HandlerSettles(c) ==
  LET r == IF c.op = "readResource" THEN ReadHandlerResult(c.handler)
           ELSE IF c.op = "getPrompt"
           THEN PromptHandlerResult(c.handler, c.log[Len(c.log)].input)
           ELSE HandlerResult(c.handler, c.log[Len(c.log)].input)
  IN [c EXCEPT !.pc = "done", !.outcome = r.status, !.result = r.value,
               !.log = MarkReturned(@)]

callTool(name, args) ==
  /\ Len(calls) < MaxCalls
  /\ calls' = Append(calls, callToolStart(tools, name, args))
  /\ UNCHANGED <<fixedVars, tools, resources, prompts, subscriptions, streams,
                 last, registered, history, clientVars>>

readResource(uri) ==
  /\ Len(calls) < MaxCalls
  /\ calls' = Append(calls, readResourceStart(resources, uri))
  /\ UNCHANGED <<fixedVars, tools, resources, prompts, subscriptions, streams,
                 last, registered, history, clientVars>>

MiddlewareReturns(i) ==
  /\ calls[i].pc = "mw"
  /\ calls' = [calls EXCEPT ![i] = StageSettles(calls[i])]
  /\ UNCHANGED <<fixedVars, tools, resources, prompts, subscriptions, streams,
                 last, registered, history, clientVars>>

HandlerReturns(i) ==
  /\ calls[i].pc = "handler"
  /\ calls' = [calls EXCEPT ![i] = HandlerSettles(calls[i])]
  /\ UNCHANGED <<fixedVars, tools, resources, prompts, subscriptions, streams,
                 last, registered, history, clientVars>>

getPrompt(name, args) ==
  /\ Len(calls) < MaxCalls
  /\ calls' = Append(calls, getPromptStart(prompts, name, args))
  /\ UNCHANGED <<fixedVars, tools, resources, prompts, subscriptions, streams,
                 last, registered, history, clientVars>>

\* ----------------------------------------------------------- initialize
LATEST_PROTOCOL_VERSION == "2024-11-05"

\* the initialize requests a client may send
InitializeRequests ==
  { [protocolVersion |-> v, clientInfo |-> c] :
      v \in {"2024-11-05", "2024-10-07"}, c \in {"inspector", "desktop"} }

\* initialize answering with the protocol version the client asked for
initialize_negotiated(caps, impl, request) ==
  [id |-> "RemoteMCP", protocolVersion |-> request.protocolVersion,
   capabilities |-> caps, serverInfo |-> impl]

initialize(caps, impl, request) ==
  [id |-> "RemoteMCP", protocolVersion |-> LATEST_PROTOCOL_VERSION,
   capabilities |-> caps, serverInfo |-> impl]

Initialize(request) ==
  /\ last' = [op |-> "initialize", key |-> request.protocolVersion,
              outcome |-> "ok", message |-> "",
              before |-> Snapshot(tools, resources, subscriptions),
              result |-> <<initialize(capabilities, implementation, request)>>]
  /\ UNCHANGED <<fixedVars, tools, resources, prompts, subscriptions, streams,
                 calls, registered, history, clientVars>>

\* ------------------------------------------------------------- listings
\* Array.from(this.tools.entries()).map(...)
listTools(t) ==
  [i \in 1..Len(t) |->
     [name |-> t[i].key,
      description |-> t[i].val.definition.description,
      inputSchema |-> [type |-> "object",
                       properties |-> t[i].val.definition.schema]]]

\* Array.from(this.prompts.entries()).map(...)
listPrompts(p) ==
  [i \in 1..Len(p) |->
     [name |-> p[i].key,
      description |-> p[i].val.definition.description,
      arguments |-> p[i].val.definition.arguments]]

\* a synchronous call that answered with result
Answered(op, result) ==
  [op |-> op, key |-> "", outcome |-> "ok", message |-> "",
   before |-> Snapshot(tools, resources, subscriptions), result |-> result]

ListTools ==
  /\ last' = Answered("listTools", listTools(tools))
  /\ UNCHANGED <<fixedVars, tools, resources, prompts, subscriptions, streams,
                 calls, registered, history, clientVars>>

ListPrompts ==
  /\ last' = Answered("listPrompts", listPrompts(prompts))
  /\ UNCHANGED <<fixedVars, tools, resources, prompts, subscriptions, streams,
                 calls, registered, history, clientVars>>

\* a spread written last, so that the item's own fields replace the
\* definition's
Decorated_itemWins(items, uri, def) ==
  items

\* {...item, uri, name: def.name, description: def.description, mimeType:
\* def.mimeType}: the definition's fields replace the item's
Decorated(items, uri, def) ==
  [i \in 1..Len(items) |->
     [items[i] EXCEPT !.uri = uri, !.name = def.name,
                      !.description = def.description,
                      !.mimeType = def.mimeType]]

\* The for-of loop of listResources over the live Map: the iterator moves to
\* entry i of the Map as it is now, binds [uri, def] and calls
\* def.listHandler(), or finds no entry i and the call resolves.
ListNext(c, r, i) ==
  IF i <= Len(r)
  THEN [c EXCEPT !.pc = "list", !.idx = i, !.key = r[i].key,
                 !.handler = r[i].val.listHandler, !.cur = <<r[i].val>>,
                 !.log = Append(@, Invocation("list", r[i].val.listHandler, <<>>))]
  ELSE [c EXCEPT !.pc = "done", !.idx = i, !.outcome = "ok"]

\* listResources up to its first await
listResourcesStart(r) ==
  ListNext(Started("listResources", "", <<>>, <<>>, "", <<>>), r, 1)

\* the awaited listHandler resolves: its items are pushed and the loop goes on
ListHandlerSettles(c, r) ==
  ListNext([c EXCEPT !.result = @ \o Decorated(ListHandlerResult(c.handler),
                                               c.key, c.cur[1]),
                     !.log = MarkReturned(@)],
           r, c.idx + 1)

\* listResources run from start to end with no registration in between
RECURSIVE ListRun(_, _)
ListRun(c, r) == IF c.pc = "done" THEN c ELSE ListRun(ListHandlerSettles(c, r), r)

listResources ==
  /\ Len(calls) < MaxCalls
  /\ calls' = Append(calls, listResourcesStart(resources))
  /\ UNCHANGED <<fixedVars, tools, resources, prompts, subscriptions, streams,
                 last, registered, history, clientVars>>

ListHandlerReturns(i) ==
  /\ calls[i].pc = "list"
  /\ calls' = [calls EXCEPT ![i] = ListHandlerSettles(calls[i], resources)]
  /\ UNCHANGED <<fixedVars, tools, resources, prompts, subscriptions, streams,
                 last, registered, history, clientVars>>

\* ------------------------------------------------ tRPC router (Dispatcher)
\* a call run from its first await to its end with nothing in between
RECURSIVE RunCall(_)
RunCall(c) ==
  IF c.pc = "done" THEN c
  ELSE IF c.pc = "mw" THEN RunCall(StageSettles(c))
  ELSE RunCall(HandlerSettles(c))

\* the procedures of the appRouter that take a request, and their types
RouterProcedures ==
  ("initialize" :> "mutation") @@ ("tools/list" :> "query")
  @@ ("tools/call" :> "mutation") @@ ("resources/list" :> "query")
  @@ ("resources/read" :> "query") @@ ("resources/subscribe" :> "mutation")
  @@ ("resources/unsubscribe" :> "mutation") @@ ("prompts/list" :> "query")
  @@ ("prompts/get" :> "query")

\* what a procedure resolves to, and the subscription map it leaves
ProcedureOk(value, subs) ==
  [status |-> "ok", value |-> value, error |-> "", subs |-> subs]

\* a procedure that threw: the caller gets a TRPCClientError
ProcedureError(code, message) ==
  [status |-> "error", value |-> <<>>,
   error |-> [code |-> code, message |-> message], subs |-> subscriptions]

\* the resolver of procedure proc run on a validated input
Procedure(proc, input) ==
  LET params == input.params
  IN CASE proc = "initialize" ->
            ProcedureOk(initialize(capabilities, implementation, input),
                        subscriptions)
       [] proc = "tools/list" ->
            ProcedureOk([tools |-> listTools(tools)], subscriptions)
       [] proc = "tools/call" ->
            LET c == RunCall(callToolStart(tools, params.name, params.arguments))
            IN IF c.outcome = "ok"
               THEN ProcedureOk(c.result, subscriptions)
               ELSE ProcedureError("INTERNAL_SERVER_ERROR", c.outcome)
       [] proc = "resources/list" ->
            ProcedureOk([resources |->
                           ListRun(listResourcesStart(resources), resources).result],
                        subscriptions)
       [] proc = "resources/read" ->
            LET c == RunCall(readResourceStart(resources, params.uri))
            IN IF c.outcome = "ok"
               THEN ProcedureOk([contents |-> c.result], subscriptions)
               ELSE ProcedureError("INTERNAL_SERVER_ERROR", c.outcome)
       [] proc = "resources/subscribe" ->
            LET r == subscribeToResource(capabilities, resources, subscriptions,
                                         params.uri)
            IN IF r.outcome = "ok"
               THEN ProcedureOk(<<>>, r.subs)
               ELSE ProcedureError("INTERNAL_SERVER_ERROR", r.outcome)
       [] proc = "resources/unsubscribe" ->
            ProcedureOk(<<>>, unsubscribeFromResource(subscriptions,
                                                      params.uri).subs)
       [] proc = "prompts/list" ->
            ProcedureOk([prompts |-> listPrompts(prompts)], subscriptions)
       [] proc = "prompts/get" ->
            LET c == RunCall(getPromptStart(prompts, params.name,
                                            params.arguments))
            IN IF c.outcome = "ok"
               THEN ProcedureOk([messages |-> c.result], subscriptions)
               ELSE ProcedureError("INTERNAL_SERVER_ERROR", c.outcome)

\* A remote call as the appRouter serves it: the path names a procedure, the
\* call has the procedure's type, and the input passes the procedure's input
\* schema, whose method is the literal of the request it is made for.
RemoteCall(sent) ==
  IF sent.procedure \notin DOMAIN RouterProcedures
  THEN ProcedureError("NOT_FOUND", sent.procedure)
  ELSE IF RouterProcedures[sent.procedure] # sent.kind
  THEN ProcedureError("METHOD_NOT_SUPPORTED", sent.procedure)
  ELSE IF sent.input.method # sent.procedure
  THEN ProcedureError("BAD_REQUEST", sent.procedure)
  ELSE Procedure(sent.procedure, sent.input)

\* ------------------------------------------------------- RemoteMCPClient
\* local requests in a behaviour
MaxRequests == 2

\* the methods setupHandlers registers a request handler for
HandledMethods ==
  {"initialize", "tools/list", "tools/call", "resources/list",
   "resources/read", "resources/subscribe", "resources/unsubscribe",
   "prompts/list", "prompts/get"}

\* the requests the local caller may send
LocalRequests ==
  { [method |-> "initialize",
     params |-> [protocolVersion |-> "2024-11-05", clientInfo |-> "desktop"]],
    [method |-> "tools/list", params |-> <<>>],
    [method |-> "tools/call", params |-> [name |-> "t1", arguments |-> <<"x">>]],
    [method |-> "tools/call", params |-> [name |-> "t2", arguments |-> <<"x">>]],
    [method |-> "resources/list", params |-> <<>>],
    [method |-> "resources/read", params |-> [uri |-> "u1"]],
    [method |-> "resources/subscribe", params |-> [uri |-> "u1"]],
    [method |-> "resources/unsubscribe", params |-> [uri |-> "u1"]],
    [method |-> "prompts/list", params |-> <<>>],
    [method |-> "prompts/get",
     params |-> [name |-> "p1", arguments |-> <<"topic">>]] }

\* a handler that calls the procedure next to its own
ClientForward_listForGet(request) ==
  [procedure |-> IF request.method = "prompts/get" THEN "prompts/list"
                 ELSE request.method,
   kind |-> IF request.method \in {"initialize", "tools/call",
                                   "resources/subscribe",
                                   "resources/unsubscribe"}
            THEN "mutation" ELSE "query",
   input |-> request]

\* setupHandlers: the handler of a request calls this.trpc[procedure] with
\* mutate or query, and hands it the request
ClientForward(request) ==
  [procedure |-> request.method,
   kind |-> IF request.method \in {"initialize", "tools/call",
                                   "resources/subscribe",
                                   "resources/unsubscribe"}
            THEN "mutation" ELSE "query",
   input |-> request]

\* a catch block that reports every failure as one of tools/call
HandlerCatch_fixedMethod(log, i, request, error) ==
  Append(log, [request |-> i, method |-> "tools/call", error |-> error])

\* catch (error) { this.options.onError?.(request.method, error) }
HandlerCatch(log, i, request, error) ==
  Append(log, [request |-> i, method |-> request.method, error |-> error])

\* the default onError: sendLoggingMessage with the method and the literal
\* text the template holds, which reaches the local caller while connected
DefaultOnError(c, state, request) ==
  IF c.options.onError = "default" /\ state = "Running"
  THEN [c EXCEPT !.outbox =
          Append(@, [method |-> "notifications/message", level |-> "error",
                     data |-> request.method \o ": error.message"])]
  ELSE c

NoError == [code |-> "", message |-> ""]

\* what the router invoked while it served a remote call
Served(sent) ==
  IF \/ sent.procedure \notin DOMAIN RouterProcedures
     \/ RouterProcedures[sent.procedure] # sent.kind
     \/ sent.input.method # sent.procedure
  THEN <<>>
  ELSE LET params == sent.input.params
       IN CASE sent.procedure = "tools/call" ->
                 RunCall(callToolStart(tools, params.name, params.arguments)).log
            [] sent.procedure = "resources/read" ->
                 RunCall(readResourceStart(resources, params.uri)).log
            [] sent.procedure = "prompts/get" ->
                 RunCall(getPromptStart(prompts, params.name,
                                        params.arguments)).log
            [] OTHER -> <<>>

\* the handler of request i returned the remote value
Resolved(r, value) ==
  [r EXCEPT !.pc = "done", !.response = [kind |-> "result", value |-> <<value>>]]

\* a catch block that raises the error again after the callback
Caught_rethrows(r, error) ==
  [r EXCEPT !.pc = "done", !.failed = TRUE, !.error = error,
            !.response = [kind |-> "error", value |-> <<error>>]]

\* a catch block whose callback never returns: the handler stays suspended
Caught_hangs(r, error) ==
  [r EXCEPT !.pc = "hung", !.failed = TRUE, !.error = error]

\* the handler of request i caught error and returned nothing
Caught(r, error) ==
  [r EXCEPT !.pc = "done", !.failed = TRUE, !.error = error,
            !.response = [kind |-> "undefined", value |-> <<>>]]

\* a start() that connects the transport without registering the handlers
ClientStart_connectOnly ==
  /\ session = "Uninitialized"
  /\ session' = "Starting"
  /\ UNCHANGED <<fixedVars, tools, resources, prompts, subscriptions, streams,
                 calls, last, registered, history, requests, errorLog, local>>

\* start(): setupHandlers() registers the nine handlers, then the transport
\* is created and connect() is awaited
ClientStart ==
  /\ session = "Uninitialized"
  /\ session' = "Starting"
  /\ local' = [local EXCEPT !.handlers = HandledMethods]
  /\ UNCHANGED <<fixedVars, tools, resources, prompts, subscriptions, streams,
                 calls, last, registered, history, requests, errorLog>>

\* server.connect(transport) resolved
ClientConnected ==
  /\ session = "Starting"
  /\ session' = "Running"
  /\ UNCHANGED <<fixedVars, tools, resources, prompts, subscriptions, streams,
                 calls, last, registered, history, requests, errorLog, local>>

\* the local transport closed
ClientClosed ==
  /\ session = "Running"
  /\ session' = "Stopped"
  /\ UNCHANGED <<fixedVars, tools, resources, prompts, subscriptions, streams,
                 calls, last, registered, history, requests, errorLog, local>>

\* A request arrives on the connected transport: its handler is called and
\* awaits its one remote call, made through the link with the link's headers;
\* a method without a handler is answered MethodNotFound by the SDK.
LocalRequest(request) ==
  /\ session = "Running"
  /\ Len(requests) < MaxRequests
  /\ requests' = Append(requests,
                        [method |-> request.method, params |-> request.params,
                         pc |-> IF request.method \in local.handlers
                                THEN "sent" ELSE "done",
                         sent |-> ClientForward(request),
                         failed |-> FALSE, error |-> NoError,
                         response |-> [kind |-> IF request.method \in local.handlers
                                                THEN "none" ELSE "MethodNotFound",
                                       value |-> <<>>],
                         failuresBefore |-> Len(errorLog),
                         headers |-> local.link.headers,
                         remoteCalls |-> IF request.method \in local.handlers
                                         THEN 1 ELSE 0,
                         served |-> <<>>])
  /\ UNCHANGED <<fixedVars, tools, resources, prompts, subscriptions, streams,
                 calls, last, registered, history, session, errorLog, local>>

\* the remote call of request i settles with what the appRouter answers
ResponseArrives(i) ==
  /\ requests[i].pc = "sent"
  /\ LET r == RemoteCall(requests[i].sent)
         log == Served(requests[i].sent)
     IN IF r.status = "ok"
        THEN /\ requests' = [requests EXCEPT
                               ![i] = [Resolved(@, r.value) EXCEPT
                                         !.served = @ \o log]]
             /\ subscriptions' = r.subs
             /\ UNCHANGED <<errorLog, local>>
        ELSE /\ requests' = [requests EXCEPT
                               ![i] = [Caught(@, r.error) EXCEPT
                                         !.served = @ \o log]]
             /\ errorLog' = HandlerCatch(errorLog, i, requests[i], r.error)
             /\ local' = DefaultOnError(local, session, requests[i])
             /\ UNCHANGED subscriptions
  /\ UNCHANGED <<fixedVars, tools, resources, prompts, streams, calls, last,
                 registered, history, session>>

\* a remote failure that ends the session
RemoteFails_exits(i) ==
  /\ requests[i].pc = "sent"
  /\ LET error == [code |-> "FETCH", message |-> "fetch failed"]
     IN /\ requests' = [requests EXCEPT ![i] = Caught(@, error)]
        /\ errorLog' = HandlerCatch(errorLog, i, requests[i], error)
  /\ local' = DefaultOnError(local, session, requests[i])
  /\ session' = "Stopped"
  /\ UNCHANGED <<fixedVars, tools, resources, prompts, subscriptions, streams,
                 calls, last, registered, history>>

\* a remote failure that fails every request in flight with it
RemoteFails_failsAll(i) ==
  /\ requests[i].pc = "sent"
  /\ LET error == [code |-> "FETCH", message |-> "fetch failed"]
     IN /\ requests' = [j \in 1..Len(requests) |->
                          IF requests[j].pc = "sent"
                          THEN Caught(requests[j], error) ELSE requests[j]]
        /\ errorLog' = HandlerCatch(errorLog, i, requests[i], error)
  /\ local' = DefaultOnError(local, session, requests[i])
  /\ UNCHANGED <<fixedVars, tools, resources, prompts, subscriptions, streams,
                 calls, last, registered, history, session>>

\* the remote call of request i rejects: the endpoint could not be reached
RemoteFails(i) ==
  /\ requests[i].pc = "sent"
  /\ LET error == [code |-> "FETCH", message |-> "fetch failed"]
     IN /\ requests' = [requests EXCEPT ![i] = Caught(@, error)]
        /\ errorLog' = HandlerCatch(errorLog, i, requests[i], error)
  /\ local' = DefaultOnError(local, session, requests[i])
  /\ UNCHANGED <<fixedVars, tools, resources, prompts, subscriptions, streams,
                 calls, last, registered, history, session>>

\* a lost response after which the handler makes its remote call again
ResponseLost_retries(i) ==
  /\ requests[i].pc = "sent"
  /\ requests[i].remoteCalls < 2
  /\ LET r == RemoteCall(requests[i].sent)
     IN /\ requests' = [requests EXCEPT
                          ![i].remoteCalls = @ + 1,
                          ![i].served = @ \o Served(requests[i].sent)]
        /\ subscriptions' = r.subs
  /\ UNCHANGED <<fixedVars, tools, resources, prompts, streams, calls, last,
                 registered, history, session, errorLog, local>>

\* the appRouter served the remote call of request i and the response was
\* lost on the way: the call rejects at the client
ResponseLost(i) ==
  /\ requests[i].pc = "sent"
  /\ LET r == RemoteCall(requests[i].sent)
         error == [code |-> "FETCH", message |-> "fetch failed"]
     IN /\ requests' = [requests EXCEPT
                          ![i] = [Caught(@, error) EXCEPT
                                    !.served = @ \o Served(requests[i].sent)]]
        /\ errorLog' = HandlerCatch(errorLog, i, requests[i], error)
        /\ subscriptions' = r.subs
  /\ local' = DefaultOnError(local, session, requests[i])
  /\ UNCHANGED <<fixedVars, tools, resources, prompts, streams, calls, last,
                 registered, history, session>>

\* -------------------------------------------------------------- MCPClient
\* The client variant that hands request.params to the remote procedure and
\* raises a failure again after its callback.
MCPClientMethods == HandledMethods \cup {"logging/setLevel"}

\* the requests the local caller may send to an MCPClient
MCPClientRequests ==
  LocalRequests \cup {[method |-> "logging/setLevel", params |-> [level |-> "debug"]]}

\* the constructor keeps the options as given: there is no default onError
MCPClient(o) ==
  [options  |-> o,
   link     |-> [url |-> o.remoteUrl,
                 headers |-> IF o.authToken # Absent /\ o.authToken # ""
                             THEN << [key |-> <<"Authorization">>,
                                      val |-> "Bearer " \o o.authToken] >>
                             ELSE <<>>],
   handlers |-> {},
   outbox   |-> <<>>]

\* the handlers whose try block awaits the remote call: only the one of
\* initialize does, the others return the pending promise out of the block
MCPClientAwaits(method) == method = "initialize"

\* the handler of a request calls this.trpc[method] with request.params
MCPClientForward(request) ==
  [procedure |-> request.method,
   kind |-> IF request.method \in {"initialize", "tools/call",
                                   "resources/subscribe",
                                   "resources/unsubscribe", "logging/setLevel"}
            THEN "mutation" ELSE "query",
   input |-> request.params]

\* the handler's promise rejected with error
Rejected(r, error) ==
  [r EXCEPT !.pc = "done", !.failed = TRUE, !.error = error,
            !.response = [kind |-> "error", value |-> <<error>>]]

\* catch (error) { this.options.onError?.(error); throw error }: the block
\* runs for a rejection only where the try block awaited the call
MCPClientCatch(log, c, i, request, error) ==
  IF MCPClientAwaits(request.method) /\ c.options.onError # Absent
  THEN Append(log, [request |-> i, method |-> request.method, error |-> error])
  ELSE log

\* start(): setupHandlers() registers the ten handlers, then the transport is
\* created and connect() is awaited
MCPClientStart ==
  /\ session = "Uninitialized"
  /\ session' = "Starting"
  /\ local' = [local EXCEPT !.handlers = MCPClientMethods]
  /\ UNCHANGED <<fixedVars, tools, resources, prompts, subscriptions, streams,
                 calls, last, registered, history, requests, errorLog>>

\* a request arrives on the connected transport and its handler makes its
\* one remote call
MCPClientRequest(request) ==
  /\ session = "Running"
  /\ Len(requests) < MaxRequests
  /\ request.method \in local.handlers
  /\ requests' = Append(requests,
                        [method |-> request.method, params |-> request.params,
                         pc |-> "sent", sent |-> MCPClientForward(request),
                         failed |-> FALSE, error |-> NoError,
                         response |-> [kind |-> "none", value |-> <<>>],
                         failuresBefore |-> Len(errorLog),
                         headers |-> local.link.headers,
                         remoteCalls |-> 1, served |-> <<>>])
  /\ UNCHANGED <<fixedVars, tools, resources, prompts, subscriptions, streams,
                 calls, last, registered, history, session, errorLog, local>>

\* the remote call of request i resolved: the handler returns the value
MCPClientResolves(i) ==
  /\ requests[i].pc = "sent"
  /\ requests' = [requests EXCEPT
                    ![i] = Resolved(@, [answer |-> requests[i].sent.procedure])]
  /\ UNCHANGED <<fixedVars, tools, resources, prompts, subscriptions, streams,
                 calls, last, registered, history, session, errorLog, local>>

\* the remote call of request i rejected, with a failure of the endpoint or
\* an error of the procedure
MCPClientRejects(i, error) ==
  /\ requests[i].pc = "sent"
  /\ requests' = [requests EXCEPT ![i] = Rejected(@, error)]
  /\ errorLog' = MCPClientCatch(errorLog, local, i, requests[i], error)
  /\ UNCHANGED <<fixedVars, tools, resources, prompts, subscriptions, streams,
                 calls, last, registered, history, session, local>>

\* ----------------------------------- the router with a logging procedure
\* The MCPRouter variant whose createTRPCRouter spreads a logging/setLevel
\* procedure into the router when the logging capability is set.
\* options.capabilities.logging: not given, or the empty object
LoggingOptions == {Absent, "{}"}

\* the options this router may be constructed with
LoggingRouterOptions ==
  { [name |-> "calculator", version |-> "1.0.0",
     capabilities |-> [given |-> o.given, subscribe |-> o.subscribe,
                       listChanged |-> o.listChanged, logging |-> l]] :
      o \in CapabilityOptions, l \in LoggingOptions }
  \ { [name |-> "calculator", version |-> "1.0.0",
       capabilities |-> [given |-> FALSE, subscribe |-> FALSE,
                         listChanged |-> FALSE, logging |-> "{}"]] }

\* a constructor that declares logging whatever the options say
LoggingConstructor_always(o) ==
  [ tools     |-> Constructor(o).tools,
    resources |-> Constructor(o).resources,
    prompts   |-> Constructor(o).prompts,
    logging   |-> "{}" ]

\* the constructor: logging is options.capabilities?.logging as given
LoggingConstructor(o) ==
  [ tools     |-> Constructor(o).tools,
    resources |-> Constructor(o).resources,
    prompts   |-> Constructor(o).prompts,
    logging   |-> IF o.given THEN o.logging ELSE Absent ]

\* the nine procedures the router always has, and their types
CoreProcedures ==
  ("initialize" :> "mutation") @@ ("tools/list" :> "query")
  @@ ("tools/call" :> "mutation") @@ ("resources/list" :> "query")
  @@ ("resources/read" :> "query") @@ ("resources/subscribe" :> "mutation")
  @@ ("resources/unsubscribe" :> "mutation") @@ ("prompts/list" :> "query")
  @@ ("prompts/get" :> "query")

\* the paths a caller may ask a router for
ProcedurePaths ==
  DOMAIN CoreProcedures \cup {"logging/setLevel", "ping", "notifications/stream"}

\* createTRPCRouter(): the procedures of the router it returns;
\* ...(this.capabilities.logging && {...}) adds the logging procedure when
\* the capability is an object, and nothing when it is undefined
createTRPCRouter(caps) ==
  IF caps.logging # Absent
  THEN CoreProcedures @@ ("logging/setLevel" :> "mutation")
  ELSE CoreProcedures

\* a router is created; the model keeps it with the calls
CreateTRPCRouter ==
  /\ Len(calls) < MaxCalls
  /\ calls' = Append(calls,
                     [Failed("createTRPCRouter", "", <<>>, "ok", <<>>)
                        EXCEPT !.result = <<createTRPCRouter(capabilities)>>])
  /\ UNCHANGED <<fixedVars, tools, resources, prompts, subscriptions, streams,
                 last, registered, history, clientVars>>

\* this variant's addTool: the entry is stored and nothing is announced
SetTool(name, entry) ==
  /\ tools' = MapSet(tools, name, entry)
  /\ registered' = [registered EXCEPT !.tools = Register(@, name, entry)]
  /\ UNCHANGED <<fixedVars, resources, prompts, subscriptions, streams, calls,
                 last, history, clientVars>>

\* a caller asks created router i for path with a call of type kind: tRPC
\* answers NOT_FOUND for a path the router has no procedure for
RouterAsked(i, path, kind) ==
  /\ calls[i].op = "createTRPCRouter"
  /\ LET procedures == calls[i].result[1]
     IN last' = [op |-> "ask", key |-> path,
                 outcome |-> IF path \notin DOMAIN procedures THEN "NOT_FOUND"
                             ELSE IF procedures[path] # kind
                             THEN "METHOD_NOT_SUPPORTED" ELSE "served",
                 message |-> kind,
                 before |-> Snapshot(tools, resources, subscriptions),
                 result |-> <<i>>]
  /\ UNCHANGED <<fixedVars, tools, resources, prompts, subscriptions, streams,
                 calls, registered, history, clientVars>>

\* --------------------------------------------------------- logger calls
\* the router calls this.logger.debug / info / warn / error with a message
LoggerCall(level) ==
  /\ last' = [op |-> "log", key |-> "", outcome |-> IF LoggerAccepts(logger, level)
                                                    THEN "printed" ELSE "dropped",
              message |-> "", before |-> Snapshot(tools, resources, subscriptions),
              result |-> <<level>>]
  /\ UNCHANGED <<fixedVars, tools, resources, prompts, subscriptions, streams,
                 calls, registered, history, clientVars>>

\* ------------------------------------------------------ specifications
\* a router constructed with a name and a version only; the tool operations
\* never read the capabilities
NoOptions == [given |-> FALSE, subscribe |-> FALSE, listChanged |-> FALSE]

InitTools == Init /\ options.capabilities = NoOptions

\* tools: registration interleaved with callTool calls in flight
NextTools ==
  \/ \E name \in ToolNames, entry \in ToolEntries : addTool(name, entry)
  \/ \E name \in ToolNames, args \in ArgValues : callTool(name, args)
  \/ \E i \in 1..Len(calls) : MiddlewareReturns(i)
  \/ \E i \in 1..Len(calls) : HandlerReturns(i)

SpecTools == InitTools /\ [][NextTools]_vars

\* resources: registration interleaved with readResource calls in flight
NextRead ==
  \/ \E uri \in Uris, def \in ResourceDefs : addResource(uri, def)
  \/ \E uri \in Uris : readResource(uri)
  \/ \E i \in 1..Len(calls) : MiddlewareReturns(i)
  \/ \E i \in 1..Len(calls) : HandlerReturns(i)

SpecRead == Init /\ [][NextRead]_vars

\* subscriptions: registration, subscribe and unsubscribe in any order
NextSubs ==
  \/ \E uri \in Uris, def \in ResourceDefs : addResource(uri, def)
  \/ \E uri \in Uris : Subscribe(uri)
  \/ \E uri \in Uris : Unsubscribe(uri)

SpecSubs == Init /\ [][NextSubs]_vars

\* capabilities: initialize between registrations, subscribe and unsubscribe
NextCaps ==
  \/ \E uri \in Uris, def \in ResourceDefs : addResource(uri, def)
  \/ \E uri \in Uris : Subscribe(uri)
  \/ \E uri \in Uris : Unsubscribe(uri)
  \/ \E request \in InitializeRequests : Initialize(request)

SpecCaps == Init /\ [][NextCaps]_vars

\* The server's start-up script registers a tool, a resource and a prompt and
\* then listens; the appRouter answers once it does.
Listening == tools # <<>> /\ resources # <<>> /\ prompts # <<>>

\* the client in front of that server: requests are handed to the client from
\* the moment it runs, whether the server listens or not
NextClient ==
  \/ \E entry \in ToolEntries :
       tools = <<>> /\ entry.handler = "h2" /\ addTool("t1", entry)
  \/ \E def \in ResourceDefs :
       /\ tools # <<>> /\ resources = <<>>
       /\ def.readHandler = "r2" /\ addResource("u1", def)
  \/ \E entry \in PromptEntries :
       /\ resources # <<>> /\ prompts = <<>>
       /\ entry.handler = "g2" /\ addPrompt("p1", entry)
  \/ ClientStart
  \/ ClientConnected
  \/ ClientClosed
  \/ \E request \in LocalRequests : LocalRequest(request)
  \/ \E i \in 1..Len(requests) : Listening /\ ResponseArrives(i)
  \/ \E i \in 1..Len(requests) : RemoteFails(i)

\* the router behind the client declares resource subscriptions
InitClient == Init /\ options.capabilities.subscribe

SpecClient == InitClient /\ [][NextClient]_vars

\* The client next to a subscriber of notifications/stream that attaches
\* while the session runs: what the server registers from then on is emitted
\* on the stream.
NextRelay ==
  \/ \E entry \in ToolEntries :
       tools = <<>> /\ entry.handler = "h2" /\ addTool("t1", entry)
  \/ \E def \in ResourceDefs :
       /\ tools # <<>> /\ resources = <<>>
       /\ def.readHandler = "r2" /\ addResource("u1", def)
  \/ \E entry \in PromptEntries :
       /\ resources # <<>> /\ prompts = <<>>
       /\ entry.handler = "g2" /\ addPrompt("p1", entry)
  \/ ClientStart
  \/ ClientConnected
  \/ ClientClosed
  \/ session = "Running" /\ StreamAttach("s1")
  \/ StreamYield("s1")
  \/ \E request \in LocalRequests :
       request.method = "tools/list" /\ LocalRequest(request)
  \/ \E i \in 1..Len(requests) : Listening /\ ResponseArrives(i)
  \/ \E i \in 1..Len(requests) : RemoteFails(i)

\* What the code itself schedules does happen: an awaited connect() resolves,
\* a remote call in flight settles once the server listens, and an event the
\* stream holds is yielded. That the transport closes or that a request
\* arrives is up to the local caller and is not required.
SpecRelay ==
  /\ InitClient
  /\ [][NextRelay]_vars
  /\ WF_vars(ClientConnected)
  /\ WF_vars(\E i \in 1..Len(requests) : Listening /\ ResponseArrives(i))
  /\ WF_vars(StreamYield("s1"))

\* the awaited remote call of request i settles, one way or the other
RemoteSettles(i) ==
  /\ i <= Len(requests)
  /\ \/ Listening /\ ResponseArrives(i)
     \/ RemoteFails(i)

\* the client serving list requests, several at a time, in front of a server
\* that starts to listen at some time or never
NextPending ==
  \/ \E entry \in ToolEntries :
       tools = <<>> /\ entry.handler = "h2" /\ addTool("t1", entry)
  \/ \E def \in ResourceDefs :
       /\ tools # <<>> /\ resources = <<>>
       /\ def.readHandler = "r2" /\ addResource("u1", def)
  \/ \E entry \in PromptEntries :
       /\ resources # <<>> /\ prompts = <<>>
       /\ entry.handler = "g2" /\ addPrompt("p1", entry)
  \/ ClientStart
  \/ ClientConnected
  \/ ClientClosed
  \/ \E request \in LocalRequests :
       request.method \in {"tools/list", "prompts/list"} /\ LocalRequest(request)
  \/ \E i \in 1..MaxRequests : RemoteSettles(i)

\* Every promise a handler awaits settles: the HTTP call of each request in
\* flight returns or fails. Nothing else is required to happen.
SpecPending ==
  /\ InitClient
  /\ [][NextPending]_vars
  /\ \A i \in 1..MaxRequests : WF_vars(RemoteSettles(i))

\* the client in front of a server that may have served a call whose
\* response is lost; the local caller calls a tool and subscribes
NextOnce ==
  \/ \E entry \in ToolEntries : tools = <<>> /\ addTool("t1", entry)
  \/ \E def \in ResourceDefs :
       /\ tools # <<>> /\ resources = <<>>
       /\ def.readHandler = "r2" /\ addResource("u1", def)
  \/ ClientStart
  \/ ClientConnected
  \/ \E request \in LocalRequests :
       /\ request.method \in {"tools/call", "resources/subscribe"}
       /\ LocalRequest(request)
  \/ \E i \in 1..Len(requests) : resources # <<>> /\ ResponseArrives(i)
  \/ \E i \in 1..Len(requests) : RemoteFails(i)
  \/ \E i \in 1..Len(requests) : resources # <<>> /\ ResponseLost(i)

SpecOnce == InitClient /\ [][NextOnce]_vars

\* clients constructed with any of the options, in front of the same server;
\* the local caller lists and calls tools
NextHeaders ==
  \/ \E entry \in ToolEntries :
       tools = <<>> /\ entry.handler = "h2" /\ addTool("t1", entry)
  \/ ClientStart
  \/ ClientConnected
  \/ \E request \in LocalRequests :
       request.method \in {"tools/list", "tools/call"} /\ LocalRequest(request)
  \/ \E i \in 1..Len(requests) : tools # <<>> /\ ResponseArrives(i)
  \/ \E i \in 1..Len(requests) : RemoteFails(i)

InitHeaders ==
  /\ InitRouter
  /\ options.capabilities = NoOptions
  /\ \E o \in ClientOptions : local = RemoteMCPClient(o)

SpecHeaders == InitHeaders /\ [][NextHeaders]_vars

\* the errors a remote call may reject with
RemoteErrors ==
  { [code |-> "FETCH", message |-> "fetch failed"],
    [code |-> "INTERNAL_SERVER_ERROR", message |-> "NotFound"] }

\* an MCPClient constructed with or without an onError callback
InitMCPClient ==
  /\ InitRouter
  /\ options.capabilities = NoOptions
  /\ \E o \in ClientOptions :
       o.headers = <<>> /\ local = MCPClient(o)

\* the MCPClient serving local requests whose remote calls resolve or reject
NextMCPClient ==
  \/ MCPClientStart
  \/ ClientConnected
  \/ \E request \in MCPClientRequests : MCPClientRequest(request)
  \/ \E i \in 1..Len(requests) : MCPClientResolves(i)
  \/ \E i \in 1..Len(requests), error \in RemoteErrors :
       MCPClientRejects(i, error)

SpecMCPClient == InitMCPClient /\ [][NextMCPClient]_vars

\* one tool name registered over and over while calls of it are in flight
NextRebind ==
  \/ \E entry \in ToolEntries : addTool("t1", entry)
  \/ \E args \in ArgValues : callTool("t1", args)
  \/ \E i \in 1..Len(calls) : MiddlewareReturns(i)
  \/ \E i \in 1..Len(calls) : HandlerReturns(i)

SpecRebind == InitTools /\ [][NextRebind]_vars

\* the router with the logging procedure, constructed with any options
InitLogging ==
  /\ options \in LoggingRouterOptions
  /\ capabilities = LoggingConstructor(options.capabilities)
  /\ implementation = Implementation(options)
  /\ tools = <<>> /\ resources = <<>> /\ prompts = <<>>
  /\ subscriptions = <<>> /\ streams = <<>> /\ calls = <<>>
  /\ last = NoCall
  /\ registered = [tools |-> NoneRegistered, resources |-> NoneRegistered,
                   prompts |-> NoneRegistered]
  /\ history = <<>>
  /\ session = "Uninitialized" /\ requests = <<>> /\ errorLog = <<>>
  /\ local = RemoteMCPClient(EntryOptions(<<>>))
  /\ logger = [kind |-> "none"]

\* routers are created, before and after a registration, and asked for paths
NextLogging ==
  \/ CreateTRPCRouter
  \/ \E entry \in ToolEntries :
       tools = <<>> /\ entry.handler = "h2" /\ SetTool("t1", entry)
  \/ \E i \in 1..Len(calls), path \in ProcedurePaths,
        kind \in {"query", "mutation"} : RouterAsked(i, path, kind)

SpecLogging == InitLogging /\ [][NextLogging]_vars

\* a router constructed with any logLevel and logger options
InitLogger ==
  /\ options \in LoggerRouterOptions
  /\ capabilities = Constructor(options.capabilities)
  /\ implementation = Implementation(options)
  /\ tools = <<>> /\ resources = <<>> /\ prompts = <<>>
  /\ subscriptions = <<>> /\ streams = <<>> /\ calls = <<>>
  /\ last = NoCall
  /\ registered = [tools |-> NoneRegistered, resources |-> NoneRegistered,
                   prompts |-> NoneRegistered]
  /\ history = <<>>
  /\ session = "Uninitialized" /\ requests = <<>> /\ errorLog = <<>>
  /\ local = RemoteMCPClient(EntryOptions(<<>>))
  /\ logger = RouterLogger(options)

\* the router logs messages of any level
NextLogger == \E level \in LogLevels : LoggerCall(level)

SpecLogger == InitLogger /\ [][NextLogger]_vars

\* calls in flight at a time in the registry specification
MaxRegistryCalls == 1

\* The three registries are independent: no operation on one reads or writes
\* another. A behaviour of the registry specification works on one of them.
OnlyTools ==
  /\ resources = <<>> /\ prompts = <<>>
  /\ last.op \in {"none", "listTools"}
  /\ \A i \in 1..Len(calls) : calls[i].op = "callTool"

OnlyResources ==
  /\ tools = <<>> /\ prompts = <<>>
  /\ last.op = "none"
  /\ \A i \in 1..Len(calls) : calls[i].op \in {"readResource", "listResources"}

OnlyPrompts ==
  /\ tools = <<>> /\ resources = <<>>
  /\ last.op \in {"none", "listPrompts"}
  /\ \A i \in 1..Len(calls) : calls[i].op = "getPrompt"

RegistryCallAllowed == Len(calls) < MaxRegistryCalls

\* registration and re-registration interleaved with listings and calls
NextRegistry ==
  \/ \E name \in ToolNames, entry \in ToolEntries :
       OnlyTools /\ addTool(name, entry)
  \/ OnlyTools /\ ListTools
  \/ \E name \in ToolNames, args \in ArgValues :
       OnlyTools /\ RegistryCallAllowed /\ callTool(name, args)
  \/ \E uri \in Uris, def \in ResourceDefs :
       OnlyResources /\ addResource(uri, def)
  \/ OnlyResources /\ RegistryCallAllowed /\ listResources
  \/ \E uri \in Uris :
       OnlyResources /\ RegistryCallAllowed /\ readResource(uri)
  \/ \E name \in PromptNames, entry \in PromptEntries :
       OnlyPrompts /\ addPrompt(name, entry)
  \/ OnlyPrompts /\ ListPrompts
  \/ \E name \in PromptNames, args \in PromptArgValues :
       OnlyPrompts /\ RegistryCallAllowed /\ getPrompt(name, args)
  \/ \E i \in 1..Len(calls) : ListHandlerReturns(i)
  \/ \E i \in 1..Len(calls) : MiddlewareReturns(i)
  \/ \E i \in 1..Len(calls) : HandlerReturns(i)

SpecRegistry == InitTools /\ [][NextRegistry]_vars

\* resources: registration interleaved with listings in flight
NextList ==
  \/ \E uri \in Uris, def \in ResourceDefs : addResource(uri, def)
  \/ RegistryCallAllowed /\ listResources
  \/ \E i \in 1..Len(calls) : ListHandlerReturns(i)

SpecList == InitTools /\ [][NextList]_vars

\* the example server: the calculator tool is registered and called
NextCalculator ==
  \/ tools = <<>> /\ addTool("calculator", CalculatorEntry)
  \/ \E args \in CalculatorArgs :
       RegistryCallAllowed /\ callTool("calculator", args)
  \/ \E i \in 1..Len(calls) : HandlerReturns(i)

SpecCalculator == InitTools /\ [][NextCalculator]_vars

\* prompts: registration and getPrompt calls
NextPrompts ==
  \/ \E name \in PromptNames, entry \in PromptEntries \cup {InheritedNameEntry} :
       addPrompt(name, entry)
  \/ \E name \in PromptNames,
        args \in PromptArgValues \cup {<<"constructor", "topic">>} :
       RegistryCallAllowed /\ getPrompt(name, args)
  \/ \E i \in 1..Len(calls) : MiddlewareReturns(i)
  \/ \E i \in 1..Len(calls) : HandlerReturns(i)

SpecPrompts == InitTools /\ [][NextPrompts]_vars

\* registrations made while a notifications/stream subscription exists
MaxEmits == 3

EmitAllowed == Len(history) < MaxEmits

\* the bus: registrations of one key per registry, first and repeated, with
\* subscribers attaching, consuming and detaching in any order
NextBus ==
  \/ \E entry \in ToolEntries :
       entry.handler = "h2" /\ EmitAllowed /\ addTool("t1", entry)
  \/ \E def \in ResourceDefs :
       def.readHandler = "r2" /\ EmitAllowed /\ addResource("u1", def)
  \/ \E entry \in PromptEntries :
       entry.handler = "g2" /\ EmitAllowed /\ addPrompt("p1", entry)
  \/ \E s \in Subscribers : StreamAttach(s)
  \/ \E s \in Subscribers : StreamYield(s)
  \/ \E s \in Subscribers : StreamDetach(s)

SpecBus == Init /\ [][NextBus]_vars

\* every operation of the router: each registry is filled once while a
\* notifications/stream subscriber listens, and calls, listings, initialize,
\* subscribe and unsubscribe run in any order
NextFrame ==
  \/ \E entry \in ToolEntries :
       tools = <<>> /\ entry.handler = "h2" /\ addTool("t1", entry)
  \/ \E uri \in Uris, def \in ResourceDefs :
       /\ tools # <<>> /\ ~MapHas(resources, uri)
       /\ uri = "u2" => MapHas(resources, "u1")
       /\ def.readHandler = "r2" /\ addResource(uri, def)
  \/ \E entry \in PromptEntries :
       /\ Len(resources) = 2 /\ prompts = <<>>
       /\ entry.handler = "g2" /\ addPrompt("p1", entry)
  \/ StreamAttach("s1")
  \/ \E name \in ToolNames :
       RegistryCallAllowed /\ callTool(name, <<"x">>)
  \/ RegistryCallAllowed /\ readResource("u1")
  \/ \E args \in PromptArgValues :
       RegistryCallAllowed /\ getPrompt("p1", args)
  \/ RegistryCallAllowed /\ listResources
  \/ ListTools
  \/ ListPrompts
  \/ \E request \in InitializeRequests :
       request.clientInfo = "inspector" /\ Initialize(request)
  \/ \E uri \in Uris : Subscribe(uri)
  \/ \E uri \in Uris : Unsubscribe(uri)
  \/ \E i \in 1..Len(calls) : ListHandlerReturns(i)
  \/ \E i \in 1..Len(calls) : MiddlewareReturns(i)
  \/ \E i \in 1..Len(calls) : HandlerReturns(i)

SpecFrame == InitClient /\ [][NextFrame]_vars

\* =================================================================== claims
\* the call a step starts, if it starts one
StartsCall == Len(calls') = Len(calls) + 1

NewCall == calls'[Len(calls')]

\* a settled call never changes again: nothing is invoked on its behalf later
SettledCallsStay ==
  \A i \in 1..Len(calls) : calls[i].pc = "done" => calls'[i] = calls[i]

StagesOf(c) == SelectSeq(c.log, LAMBDA e : e.kind = "mw")

HandlersOf(c) == SelectSeq(c.log, LAMBDA e : e.kind = "handler")

ParsesOf(c) == SelectSeq(c.log, LAMBDA e : e.kind = "parse")

\* C1: a callTool on a registered tool with arguments its stored schema
\* rejects fails with ValidationError, and neither a middleware stage nor the
\* handler is invoked for it, then or later.
C1_InvalidArgsStep ==
  /\ SettledCallsStay
  /\ (StartsCall /\ NewCall.op = "callTool" /\ MapHas(tools, NewCall.key)
        /\ ~SchemaAccepts(MapGet(tools, NewCall.key).definition.schema,
                          NewCall.args))
     => /\ NewCall.pc = "done"
        /\ NewCall.outcome = "ValidationError"
        /\ StagesOf(NewCall) = <<>>
        /\ HandlersOf(NewCall) = <<>>

C1_ValidationErrorInvokesNothing == [][C1_InvalidArgsStep]_vars

\* a rejected call on a tool that has middleware stages
C1_Witness ==
  \E i \in 1..Len(calls) :
    /\ calls[i].op = "callTool" /\ calls[i].outcome = "ValidationError"
    /\ calls[i].pc = "done" /\ calls[i].args = <<>>
    /\ MapHas(tools, calls[i].key)
    /\ MapGet(tools, calls[i].key).definition.middlewares # <<>>

\* C2: a callTool on a name that is not registered fails with NotFound (not
\* with ValidationError) whatever the arguments are, and no schema, no
\* middleware stage and no handler is invoked for it.
C2_UnknownToolStep ==
  /\ SettledCallsStay
  /\ (StartsCall /\ NewCall.op = "callTool" /\ ~MapHas(tools, NewCall.key))
     => /\ NewCall.pc = "done"
        /\ NewCall.outcome = "NotFound"
        /\ NewCall.log = <<>>

C2_UnknownToolNotFound == [][C2_UnknownToolStep]_vars

\* an unknown tool called with arguments every schema would reject
C2_Witness ==
  \E i \in 1..Len(calls) :
    /\ calls[i].op = "callTool" /\ calls[i].outcome = "NotFound"
    /\ calls[i].args = <<>> /\ calls[i].log = <<>>

\* C3: in a callTool that passed the registry and schema checks, the stages
\* are invoked in registration order, one at a time, the first with the
\* validated arguments and each later one with its predecessor's output; the
\* handler is invoked once, after the last stage settled, with the last
\* stage's output; the call settles with the handler's result.
C3_ChainOf(c) ==
  LET mw == c.middlewares
      st == StagesOf(c)
      hs == HandlersOf(c)
      ps == ParsesOf(c)
      v0 == SchemaParse(ps[1].name, c.args)
      out(k) == IF k = 0 THEN v0 ELSE StageOutput(mw[k], st[k].input)
  IN /\ Len(ps) = 1 /\ ps[1].input = c.args
     /\ c.log = ps \o st \o hs
     /\ Len(st) <= Len(mw)
     /\ \A k \in 1..Len(st) : st[k].name = mw[k] /\ st[k].input = out(k - 1)
     /\ \A k \in 1..(Len(st) - 1) : st[k].returned
     /\ Len(hs) <= 1
     /\ Len(hs) = 1 =>
          /\ Len(st) = Len(mw)
          /\ \A k \in 1..Len(st) : st[k].returned
          /\ hs[1].name = c.handler
          /\ hs[1].input = out(Len(mw))
     /\ (Len(st) = Len(mw) /\ (\A k \in 1..Len(st) : st[k].returned)
           /\ c.outcome # "MiddlewareError") => Len(hs) = 1
     /\ (c.pc = "done" /\ c.outcome # "MiddlewareError") =>
          /\ Len(hs) = 1 /\ hs[1].returned
          /\ [status |-> c.outcome, value |-> c.result]
               = HandlerResult(c.handler, out(Len(mw)))

C3_State ==
  \A i \in 1..Len(calls) :
    (calls[i].op = "callTool"
       /\ calls[i].outcome \notin {"NotFound", "ValidationError"})
    => C3_ChainOf(calls[i])

\* a call that passes the checks is bound to the entry registered under its
\* name when it starts
C3_Bind ==
  (StartsCall /\ NewCall.op = "callTool"
     /\ NewCall.outcome \notin {"NotFound", "ValidationError"})
  => /\ MapHas(tools, NewCall.key)
     /\ NewCall.middlewares = MapGet(tools, NewCall.key).definition.middlewares
     /\ NewCall.handler = MapGet(tools, NewCall.key).handler
     /\ ParsesOf(NewCall)[1].name = MapGet(tools, NewCall.key).definition.schema

C3_MiddlewareChainInOrder == []C3_State /\ [][C3_Bind]_vars

\* a call through a two-stage chain that settled with its handler's answer,
\* where the validated arguments differ from the raw ones
C3_Witness ==
  \E i \in 1..Len(calls) :
    /\ calls[i].op = "callTool" /\ calls[i].pc = "done"
    /\ calls[i].outcome = "ok"
    /\ Len(calls[i].middlewares) = 2
    /\ calls[i].result = <<"x", "a", "b", "h2">>

\* the subscription entries stored under uri
EntriesOf(subs, uri) == { i \in 1..Len(subs) : subs[i].key = uri }

\* C4: subscribeToResource fails with Unsupported when the subscribe
\* capability is off; else with NotFound when the uri is not registered; else
\* with Unsupported when the resource is not subscribable; else it succeeds
\* and the uri has an entry. A failing call leaves the map as it found it.
C4_SubscribeCheckOrder ==
  last.op = "subscribe" =>
    LET b == last.before
        u == last.key
    IN IF ~capabilities.resources.subscribe
       THEN /\ last.outcome = "Unsupported"
            /\ last.message = "Resource subscription not supported"
            /\ subscriptions = b.subscriptions
       ELSE IF ~MapHas(b.resources, u)
       THEN /\ last.outcome = "NotFound"
            /\ subscriptions = b.subscriptions
       ELSE IF ~MapGet(b.resources, u).subscribe
       THEN /\ last.outcome = "Unsupported"
            /\ last.message = "Resource does not support subscriptions"
            /\ subscriptions = b.subscriptions
       ELSE /\ last.outcome = "ok"
            /\ MapHas(subscriptions, u)

\* a subscribe on an unregistered uri refused for the capability
C4_Witness ==
  /\ last.op = "subscribe" /\ last.outcome = "Unsupported"
  /\ ~capabilities.resources.subscribe
  /\ ~MapHas(last.before.resources, last.key)

\* C5 as stated: a subscribe on an unregistered uri fails with NotFound
C5_UnregisteredSubscribeNotFound ==
  (last.op = "subscribe" /\ ~MapHas(last.before.resources, last.key))
    => last.outcome = "NotFound"

\* C5: a subscribe on an unregistered uri fails and leaves the map unchanged;
\* it fails with NotFound when the subscribe capability is on and with
\* Unsupported when it is off.
C5_UnregisteredSubscribeFails ==
  (last.op = "subscribe" /\ ~MapHas(last.before.resources, last.key))
    => /\ last.outcome = IF capabilities.resources.subscribe
                         THEN "NotFound" ELSE "Unsupported"
       /\ subscriptions = last.before.subscriptions

\* a subscribe on an unregistered uri with the capability on
C5_Witness ==
  /\ last.op = "subscribe" /\ last.outcome = "NotFound"
  /\ capabilities.resources.subscribe
  /\ ~MapHas(last.before.resources, last.key)

\* C6 as stated: an unsubscribe on an unregistered uri fails with NotFound
C6_UnregisteredUnsubscribeNotFound ==
  (last.op = "unsubscribe" /\ ~MapHas(last.before.resources, last.key))
    => last.outcome = "NotFound"

\* C6: an unsubscribe on an unregistered uri completes without error and
\* leaves the subscription map unchanged.
C6_UnregisteredUnsubscribeNoOp ==
  (last.op = "unsubscribe" /\ ~MapHas(last.before.resources, last.key))
    => /\ last.outcome = "ok"
       /\ subscriptions = last.before.subscriptions

\* an unsubscribe on an unregistered uri while another uri is subscribed
C6_Witness ==
  /\ last.op = "unsubscribe" /\ last.outcome = "ok"
  /\ ~MapHas(last.before.resources, last.key)
  /\ subscriptions # <<>>

\* C8: a successful subscribe leaves exactly one entry for the uri, holding
\* one subscriber, and when the uri was subscribed already the call changes
\* nothing.
C8_SubscribeIdempotent ==
  (last.op = "subscribe" /\ last.outcome = "ok") =>
    /\ Cardinality(EntriesOf(subscriptions, last.key)) = 1
    /\ Cardinality(MapGet(subscriptions, last.key)) = 1
    /\ MapHas(last.before.subscriptions, last.key)
         => subscriptions = last.before.subscriptions

\* a repeated successful subscribe
C8_Witness ==
  /\ last.op = "subscribe" /\ last.outcome = "ok"
  /\ MapHas(last.before.subscriptions, last.key)

\* C9: no subscription entry has an empty subscriber set, and an unsubscribe
\* that removes the last subscriber of a uri removes the uri's entry.
C9_NoEmptyEntries ==
  /\ \A i \in 1..Len(subscriptions) : subscriptions[i].val # {}
  /\ (last.op = "unsubscribe" /\ MapHas(last.before.subscriptions, last.key)
        /\ MapGet(last.before.subscriptions, last.key) \ {last.key} = {})
     => ~MapHas(subscriptions, last.key)

\* an unsubscribe that removed the entry of a subscribed uri
C9_Witness ==
  /\ last.op = "unsubscribe"
  /\ MapHas(last.before.subscriptions, last.key)
  /\ ~MapHas(subscriptions, last.key)

\* C10: an unsubscribe on a uri without subscription entry completes without
\* error and changes neither the subscription map nor the registries.
C10_Step ==
  (last' # last /\ last'.op = "unsubscribe"
     /\ ~MapHas(subscriptions, last'.key))
  => /\ last'.outcome = "ok"
     /\ last'.before = Snapshot(tools, resources, subscriptions)
     /\ subscriptions' = subscriptions
     /\ resources' = resources
     /\ tools' = tools

C10_UnsubscribeWithoutEntryNoOp == [][C10_Step]_vars

\* an unsubscribe right after the unsubscribe that removed the entry
C10_Witness ==
  /\ last.op = "unsubscribe" /\ last.outcome = "ok"
  /\ ~MapHas(last.before.subscriptions, last.key)
  /\ MapHas(last.before.resources, last.key)
  /\ MapGet(last.before.resources, last.key).subscribe
  /\ capabilities.resources.subscribe

\* C7: a readResource on a uri that is not registered fails with NotFound and
\* invokes no middleware stage and no read handler, then or later.
C7_UnknownResourceStep ==
  /\ SettledCallsStay
  /\ (StartsCall /\ NewCall.op = "readResource"
        /\ ~MapHas(resources, NewCall.key))
     => /\ NewCall.pc = "done"
        /\ NewCall.outcome = "NotFound"
        /\ NewCall.log = <<>>

C7_UnknownResourceNotFound == [][C7_UnknownResourceStep]_vars

\* a failed read of one uri while another uri is registered with middleware
C7_Witness ==
  \E i \in 1..Len(calls) :
    /\ calls[i].op = "readResource" /\ calls[i].outcome = "NotFound"
    /\ ~MapHas(resources, calls[i].key)
    /\ resources # <<>>

\* ----------------------------------------------------------------- C11
Names(list) == [i \in 1..Len(list) |-> list[i].name]

ItemUris(list) == [i \in 1..Len(list) |-> list[i].uri]

\* position of a key in an order
PositionIn(order, k) == CHOOSE i \in 1..Len(order) : order[i] = k

\* the uris a listing is due: every uri in first-registration order, once per
\* item its latest definition lists
RECURSIVE UrisDue(_, _)
UrisDue(order, latest) ==
  IF order = <<>> THEN <<>>
  ELSE [i \in 1..Len(ListHandlerResult(latest[Head(order)].listHandler)) |->
          Head(order)]
       \o UrisDue(Tail(order), latest)

\* C11: listTools and listPrompts answer with one entry per registered key, in
\* the order in which the keys were first registered, and an earlier answer
\* is a prefix of that order; the items of listResources are grouped by uri in
\* the order in which the uris were first registered.
C11_ListOrder ==
  /\ Names(listTools(tools)) = registered.tools.order
  /\ Names(listPrompts(prompts)) = registered.prompts.order
  /\ last.op = "listTools" =>
        Names(last.result) = SubSeq(registered.tools.order, 1, Len(last.result))
  /\ last.op = "listPrompts" =>
        Names(last.result) = SubSeq(registered.prompts.order, 1, Len(last.result))
  /\ ItemUris(ListRun(listResourcesStart(resources), resources).result)
       = UrisDue(registered.resources.order, registered.resources.latest)
  /\ \A c \in 1..Len(calls) :
        calls[c].op = "listResources" =>
          \A i, j \in 1..Len(calls[c].result) :
            i < j => PositionIn(registered.resources.order, calls[c].result[i].uri)
                     <= PositionIn(registered.resources.order,
                                   calls[c].result[j].uri)

\* "t2" was called while registered with handler h1, registered again with
\* another definition, and is still listed first, before "t1"; or a listing of
\* two resources answered with the item of the first before the two items of
\* the second
C11_Witness ==
  \/ /\ last.op = "listTools"
     /\ Names(last.result) = <<"t2", "t1">>
     /\ last.result[1].description = "d2"
     /\ \E c \in 1..Len(calls) : calls[c].key = "t2" /\ calls[c].handler = "h1"
  \/ \E c \in 1..Len(calls) :
       /\ calls[c].op = "listResources" /\ calls[c].pc = "done"
       /\ ItemUris(calls[c].result) = <<"u2", "u1", "u1">>

\* ----------------------------------------------------------------- C12
\* a registry holds each key once, at the position of its first registration
\* and with the value it was registered with last
InPlace(m, reg) ==
  /\ Len(m) = Len(reg.order)
  /\ \A i \in 1..Len(m) :
       m[i].key = reg.order[i] /\ m[i].val = reg.latest[m[i].key]

C12_State ==
  /\ InPlace(tools, registered.tools)
  /\ InPlace(resources, registered.resources)
  /\ InPlace(prompts, registered.prompts)

\* a call on a registered key is started with the latest registration of it
C12_Bind ==
  StartsCall =>
    LET c == NewCall
    IN /\ (c.op = "callTool" /\ c.key \in DOMAIN registered.tools.latest) =>
            LET e == registered.tools.latest[c.key]
            IN /\ c.log[1] = Returned("parse", e.definition.schema, c.args)
               /\ c.outcome = "pending" =>
                    /\ c.middlewares = e.definition.middlewares
                    /\ c.handler = e.handler
       /\ (c.op = "readResource"
             /\ c.key \in DOMAIN registered.resources.latest) =>
            LET d == registered.resources.latest[c.key]
            IN /\ c.outcome = "pending"
               /\ c.middlewares = d.middlewares
               /\ c.handler = d.readHandler
       /\ (c.op = "getPrompt" /\ c.key \in DOMAIN registered.prompts.latest) =>
            LET e == registered.prompts.latest[c.key]
            IN IF c.outcome = "pending"
               THEN /\ c.middlewares = e.definition.middlewares
                    /\ c.handler = e.handler
               ELSE /\ c.outcome = "MissingArgument"
                    /\ \E i \in 1..Len(e.definition.arguments) :
                         /\ e.definition.arguments[i].required
                         /\ e.definition.arguments[i].name = c.result[1]

\* C12: registering a key again replaces the entry in place: the registry
\* holds the key once, at the position of its first registration, with the
\* newly registered value, and every call started afterwards on that key is
\* bound to the newly registered definition and handler.
C12_OverwriteInPlace == []C12_State /\ [][C12_Bind]_vars

\* "t1" was listed first of two with its first definition, registered again,
\* and a call on it has answered through the handler registered last, with
\* "t1" still first of two
C12_Witness ==
  /\ last.op = "listTools"
  /\ Len(last.result) = 2
  /\ last.result[1] = [name |-> "t1", description |-> "d1",
                       inputSchema |-> [type |-> "object",
                                        properties |-> "strict"]]
  /\ Len(tools) = 2
  /\ tools[1].key = "t1"
  /\ \E c \in 1..Len(calls) :
       /\ calls[c].op = "callTool" /\ calls[c].key = "t1"
       /\ calls[c].pc = "done" /\ calls[c].outcome = "ok"
       /\ calls[c].handler = "h2"
       /\ calls[c].handler = tools[1].val.handler

\* ----------------------------------------------------------------- C13
\* the notification a registration operation announces itself with
MethodOf(op) ==
  CASE op = "addTool"     -> "notifications/tools/list_changed"
    [] op = "addResource" -> "notifications/resources/list_changed"
    [] op = "addPrompt"   -> "notifications/prompts/list_changed"

\* the step is a registration made while a subscription exists
Registers == Len(history') = Len(history) + 1

\* C13: every call of addTool, addResource and addPrompt succeeds and puts
\* exactly one notification of its own kind on the bus: each attached
\* listener is handed one more event, the list_changed of that registry,
\* whether the key was new or not and whatever the listChanged capabilities.
C13_AddEmitsOne ==
  [][Registers =>
       LET e == history'[Len(history')]
       IN /\ SubSeq(history', 1, Len(history)) = history
          /\ \/ e.op = "addTool" /\ e.key \in MapKeys(tools')
             \/ e.op = "addResource" /\ e.key \in MapKeys(resources')
             \/ e.op = "addPrompt" /\ e.key \in MapKeys(prompts')
          /\ DOMAIN streams' = DOMAIN streams
          /\ \A s \in DOMAIN streams :
               IF streams[s].attached
               THEN streams'[s] = [streams[s] EXCEPT
                                     !.queue = Append(@, MethodOf(e.op))]
               ELSE streams'[s] = streams[s]]_vars

\* a listener was handed the tools list_changed of a repeated registration by
\* a router that declares no listChanged capability
C13_Witness ==
  /\ ~capabilities.tools.listChanged
  /\ Len(tools) = 1
  /\ \E s \in DOMAIN streams :
       /\ streams[s].from = 0
       /\ streams[s].received = << "notifications/tools/list_changed",
                                   "notifications/tools/list_changed" >>

\* ----------------------------------------------------------------- C16
\* what a stream has been handed or has queued
Seen(s) == streams[s].received \o streams[s].queue

\* the notifications of the registrations made after position from
EmittedSince(from) ==
  [i \in 1..(Len(history) - from) |-> MethodOf(history[from + i].op)]

CountOf(seq, n) == Cardinality({ i \in 1..Len(seq) : seq[i] = n })

C16_State ==
  \A s, t \in DOMAIN streams :
    (streams[s].attached /\ streams[t].attached) =>
      /\ streams[s].from <= streams[t].from =>
            Seen(t) = SubSeq(Seen(s), streams[t].from - streams[s].from + 1,
                             Len(Seen(s)))
      /\ CountOf(Seen(s), "notifications/resources/list_changed")
           = Cardinality({ i \in (streams[s].from + 1)..Len(history) :
                             history[i].op = "addResource" })

\* a step that emits nothing changes the stream of one subscriber at most
C16_Step ==
  history' = history =>
    \A s, t \in DOMAIN streams :
      (s # t /\ streams'[s] # streams[s]) => streams'[t] = streams[t]

\* C16: the notification stream is a broadcast: every attached subscriber gets
\* its own copy of each notification, what one subscriber consumes or whether
\* it detaches changes nothing for another, and two subscribers attached
\* before an addResource are each handed exactly one resources list_changed.
C16_Broadcast == []C16_State /\ [][C16_Step]_vars

\* two subscribers attached before one addResource; one consumed its copy,
\* the other has its own still queued
C16_Witness ==
  /\ DOMAIN streams = Subscribers
  /\ history = << [op |-> "addResource", key |-> "u1"] >>
  /\ streams["s1"].received = << "notifications/resources/list_changed" >>
  /\ streams["s2"].attached
  /\ streams["s2"].queue = << "notifications/resources/list_changed" >>

\* ----------------------------------------------------------------- C17
\* C17: a subscriber is handed exactly the notifications emitted after it
\* attached, in emission order and once each: what it was handed and what is
\* queued for it are together the emissions since its attachment, however
\* many are queued, and nothing emitted before; after it detached, what it
\* was handed is a prefix of them.
C17_SinceAttach ==
  \A s \in DOMAIN streams :
    /\ streams[s].attached => Seen(s) = EmittedSince(streams[s].from)
    /\ ~streams[s].attached =>
         /\ streams[s].queue = <<>>
         /\ Len(streams[s].received) <= Len(history) - streams[s].from
         /\ streams[s].received
              = SubSeq(EmittedSince(streams[s].from), 1, Len(streams[s].received))

\* a subscriber attached after one emission has two later ones queued behind
\* the one it is being handed, in emission order
C17_Witness ==
  \E s \in DOMAIN streams :
    /\ streams[s].from = 1
    /\ Len(history) = 3
    /\ history[2].op # history[3].op
    /\ streams[s].queue = << MethodOf(history[2].op), MethodOf(history[3].op) >>

\* ----------------------------------------------------------------- C14
\* what the constructor was given decides the answer of initialize
InitializeResultOf(o) ==
  [id |-> "RemoteMCP", protocolVersion |-> LATEST_PROTOCOL_VERSION,
   capabilities |-> Constructor(o.capabilities),
   serverInfo |-> [name |-> o.name, version |-> o.version]]

\* C14: initialize answers with the protocol version, the capability set and
\* the server info fixed at construction, whatever the request holds and
\* whatever operations ran before; no operation changes the capabilities.
C14_InitializeStatic ==
  /\ capabilities = Constructor(options.capabilities)
  /\ implementation = [name |-> options.name, version |-> options.version]
  /\ \A request \in InitializeRequests :
       initialize(capabilities, implementation, request)
         = InitializeResultOf(options)
  /\ last.op = "initialize" => last.result = <<InitializeResultOf(options)>>

\* initialize asked for an older protocol version after a subscription was
\* made
C14_Witness ==
  /\ last.op = "initialize"
  /\ last.key # LATEST_PROTOCOL_VERSION
  /\ last.result[1].capabilities.resources.subscribe
  /\ Len(last.before.subscriptions) = 1

\* ----------------------------------------------------------------- C15
\* C15: a router constructed without capability overrides declares
\* tools.listChanged, resources.subscribe, resources.listChanged and
\* prompts.listChanged false; and while resources.subscribe is false every
\* subscribeToResource fails with Unsupported and the subscription map is
\* empty.
C15_DefaultsUnsupported ==
  /\ ~options.capabilities.given =>
       /\ capabilities.tools.listChanged = FALSE
       /\ capabilities.resources.subscribe = FALSE
       /\ capabilities.resources.listChanged = FALSE
       /\ capabilities.prompts.listChanged = FALSE
  /\ ~capabilities.resources.subscribe =>
       /\ subscriptions = <<>>
       /\ last.op = "subscribe" => last.outcome = "Unsupported"

\* a router constructed without overrides refused a subscription to a
\* registered resource whose definition allows subscriptions
C15_Witness ==
  /\ ~options.capabilities.given
  /\ last.op = "subscribe"
  /\ last.outcome = "Unsupported"
  /\ MapHas(last.before.resources, last.key)
  /\ MapGet(last.before.resources, last.key).subscribe

\* ----------------------------------------------------------------- C18
\* the request a client handler was called with
RequestOf(r) == [method |-> r.method, params |-> r.params]

\* step in which the remote call of request i settles
Settles(i) == requests[i].pc = "sent" /\ requests'[i].pc = "done"

\* every request is forwarded to the procedure of its own name, with a call of
\* that procedure's type and the request as it came
C18_State ==
  \A i \in 1..Len(requests) :
    /\ requests[i].sent.procedure = requests[i].method
    /\ requests[i].sent.procedure \in DOMAIN RouterProcedures
    /\ requests[i].sent.kind = RouterProcedures[requests[i].method]
    /\ requests[i].sent.input = RequestOf(requests[i])

\* a remote call that succeeds hands the local caller what the procedure
\* called directly with the request answers
C18_Step ==
  \A i \in 1..Len(requests) :
    (Settles(i) /\ ~requests'[i].failed) =>
      LET direct == Procedure(requests[i].method, RequestOf(requests[i]))
      IN /\ direct.status = "ok"
         /\ requests'[i].response = [kind |-> "result",
                                      value |-> <<direct.value>>]

\* C18: for each of the nine methods the client invokes the remote procedure
\* of the same name with the request's parameters unchanged, and on success
\* the local caller receives exactly the value the Dispatcher returned.
C18_ForwardVerbatim == []C18_State /\ [][C18_Step]_vars

\* a tools/call and a prompts/get were answered with the values the router's
\* chains produce
C18_Witness ==
  \E i, j \in 1..Len(requests) :
    /\ requests[i].method = "tools/call" /\ requests[i].pc = "done"
    /\ requests[i].response = [kind |-> "result",
                               value |-> << <<"x", "a", "b", "h2">> >>]
    /\ requests[j].method = "prompts/get" /\ requests[j].pc = "done"
    /\ requests[j].response
         = [kind |-> "result",
            value |-> << [messages |-> <<"msg", "g2", "topic">>] >>]

\* ----------------------------------------------------------------- C19
\* the invocations of the error callback made for request i
CallbacksFor(i) == { k \in 1..Len(errorLog) : errorLog[k].request = i }

\* C19: when the remote call of a request fails, the error callback is
\* invoked exactly once, with the method name of that request and the error;
\* it is not invoked for a request whose remote call did not fail.
C19_ErrorCallbackOnce ==
  /\ \A k \in 1..Len(errorLog) : errorLog[k].request \in 1..Len(requests)
  /\ \A i \in 1..Len(requests) :
       IF requests[i].failed
       THEN /\ Cardinality(CallbacksFor(i)) = 1
            /\ \A k \in CallbacksFor(i) :
                 /\ errorLog[k].method = requests[i].method
                 /\ errorLog[k].error = requests[i].error
       ELSE CallbacksFor(i) = {}

\* an unreachable endpoint and an unknown tool were each reported once
C19_Witness ==
  /\ Len(errorLog) = 2
  /\ \E k \in 1..2 :
       /\ errorLog[k].method = "resources/read"
       /\ errorLog[k].error.code = "FETCH"
  /\ \E k \in 1..2 :
       /\ errorLog[k].method = "tools/call"
       /\ errorLog[k].error = [code |-> "INTERNAL_SERVER_ERROR",
                               message |-> "NotFound"]

\* ----------------------------------------------------------------- C20
\* a request handed over after a failure is forwarded like any other and, once
\* its remote call has settled, answered
C20_State ==
  /\ \A i \in 1..Len(requests) :
       requests[i].failuresBefore > 0 =>
         /\ requests[i].sent = [procedure |-> requests[i].method,
                                 kind |-> RouterProcedures[requests[i].method],
                                 input |-> RequestOf(requests[i])]
         /\ requests[i].pc = "done" =>
              requests[i].response.kind
                = IF requests[i].failed THEN "undefined" ELSE "result"
  /\ (session = "Running" /\ Len(requests) < MaxRequests) =>
       ENABLED LocalRequest([method |-> "tools/list", params |-> <<>>])

\* a step that settles or starts a request leaves the session as it is
C20_Step ==
  (requests' # requests \/ errorLog' # errorLog) => session' = session

\* C20: a failed request never ends the client session: whatever failed
\* before, the session is left Running and a later request is forwarded to
\* its remote procedure and answered.
C20_FailureKeepsSession == []C20_State /\ [][C20_Step]_vars

\* with the session running, a request made after a failed one was answered
\* with the remote value
C20_Witness ==
  /\ session = "Running"
  /\ \E i \in 1..Len(requests) :
       /\ requests[i].failuresBefore > 0
       /\ requests[i].pc = "done"
       /\ ~requests[i].failed
       /\ requests[i].response.kind = "result"


\* ------------------------------------------------------------------ C21
\* what the local caller would get from a remote call
OutcomeOf(r) == [status |-> r.status, value |-> r.value, error |-> r.error]

\* request j fails in this step
FailsNow(j) ==
  /\ j \in 1..Len(requests)
  /\ requests[j].pc = "sent"
  /\ requests'[j].pc = "done"
  /\ requests'[j].failed

\* request j succeeds in this step
SucceedsNow(j) ==
  /\ j \in 1..Len(requests)
  /\ requests[j].pc = "sent"
  /\ requests'[j].pc = "done"
  /\ ~requests'[j].failed

\* every callback invocation is for a request that failed, with its method;
\* whatever else was in flight, a request the server answered ended with what
\* its own remote call answers
C21_State ==
  /\ \A i \in 1..Len(requests) :
       requests[i].pc = "done" /\ requests[i].error.code # "FETCH"
         => LET r == OutcomeOf(RemoteCall(requests[i].sent))
            IN IF requests[i].failed
               THEN r.status = "error" /\ requests[i].error = r.error
               ELSE /\ r.status = "ok"
                    /\ requests[i].response
                         = [kind |-> "result", value |-> <<r.value>>]
  /\ \A k \in 1..Len(errorLog) :
       /\ errorLog[k].request \in 1..Len(requests)
       /\ requests[errorLog[k].request].failed
       /\ errorLog[k].method = requests[errorLog[k].request].method
  /\ \A i \in 1..Len(requests) :
       requests[i].pc = "done" /\ ~requests[i].failed
         => \A k \in 1..Len(errorLog) : errorLog[k].request # i

C21_Step ==
  /\ \A j \in 1..Len(requests) :
       FailsNow(j) =>
         /\ errorLog' = Append(errorLog,
                               [request |-> j, method |-> requests[j].method,
                                error |-> requests'[j].error])
         /\ \A i \in 1..Len(requests) \ {j} : requests'[i] = requests[i]
  /\ \A j \in 1..Len(requests) :
       SucceedsNow(j) =>
         /\ requests'[j].response
              = [kind |-> "result",
                 value |-> <<RemoteCall(requests[j].sent).value>>]
         /\ RemoteCall(requests[j].sent).status = "ok"
         /\ errorLog' = errorLog
         /\ \A i \in 1..Len(requests) \ {j} : requests'[i] = requests[i]

\* C21: with several requests in flight at the client, the failure of one
\* leaves every other request and what its remote call will answer as they
\* were; a request that succeeds returns the result of its own remote call;
\* the error callback is invoked only for the requests that fail, each time
\* with that request's own method name.
C21_RequestsIndependent == []C21_State /\ [][C21_Step]_vars

\* two requests were in flight together, the first failed and the second
\* returned its remote result
C21_Witness ==
  /\ Len(requests) = 2
  /\ requests[1].failed
  /\ requests[2].failuresBefore = 0
  /\ requests[2].pc = "done"
  /\ ~requests[2].failed
  /\ requests[2].response.kind = "result"
  /\ requests[2].method # requests[1].method
  /\ Len(errorLog) = 1


\* ------------------------------------------------------------------ C22
\* the list-changed notifications the client has sent to the local caller
Relayed ==
  SelectSeq(local.outbox,
            LAMBDA m : m.method \in {"notifications/tools/list_changed",
                                      "notifications/resources/list_changed",
                                      "notifications/prompts/list_changed"})

\* C22: every notification the Dispatcher emits while the client session is
\* Running is forwarded by the client to the local caller as an out-of-band
\* message, each one once and in the order of emission: no more messages are
\* relayed than were emitted, and once something was emitted, unless the
\* session stops, the relayed messages come to be the emitted ones in order.
C22_RelayForwardsAll ==
  /\ [](Len(Relayed) <= Len(history))
  /\ (session = "Running" /\ history # <<>>)
       ~> \/ session = "Stopped"
          \/ /\ Len(Relayed) = Len(history)
             /\ \A n \in 1..Len(history) :
                  Relayed[n].method = MethodOf(history[n].op)


\* ------------------------------------------------------------------ C23
C23_State ==
  /\ session \in {"Uninitialized", "Starting", "Running", "Stopped"}
  /\ session # "Uninitialized" => local.handlers = HandledMethods
  /\ requests # <<>> => session \in {"Running", "Stopped"}
  /\ \A i \in 1..Len(requests) :
       /\ requests[i].method \in local.handlers
       /\ requests[i].response.kind # "MethodNotFound"

C23_Step ==
  /\ session' # session =>
       <<session, session'>> \in { <<"Uninitialized", "Starting">>,
                                   <<"Starting", "Running">>,
                                   <<"Running", "Stopped">> }
  /\ Len(requests') > Len(requests) => session = "Running"
  /\ local.outbox' # local.outbox => session = "Running"
  /\ local.handlers # {} => local.handlers' = local.handlers

\* C23: the session only moves Uninitialized -> Starting -> Running ->
\* Stopped; the nine handlers are registered by the step that leaves
\* Uninitialized, before the transport is attached, and stay registered, so
\* every request is served by its handler; requests are accepted and
\* out-of-band messages are sent only in Running; nothing leaves Stopped.
C23_Lifecycle == []C23_State /\ [][C23_Step]_vars

\* a session that ran, served a request with its handler, and stopped
C23_Witness ==
  /\ session = "Stopped"
  /\ \E i \in 1..Len(requests) :
       /\ requests[i].pc = "done"
       /\ requests[i].response.kind = "result"
  /\ \E i \in 1..Len(requests) : requests[i].pc = "sent"


\* ------------------------------------------------------------------ C24
\* the static outgoing headers the options of a client name: the headers
\* given, and the bearer token given
ConfiguredHeaders(o) ==
  { o.headers[n] : n \in 1..Len(o.headers) }
  \cup (IF o.authToken # Absent /\ o.authToken # ""
        THEN { [key |-> <<"Authorization">>, val |-> "Bearer " \o o.authToken] }
        ELSE {})

HeadersOf(r) == { r.headers[n] : n \in 1..Len(r.headers) }

\* C24: every outgoing remote call carries the static outgoing headers the
\* client was configured with, the same set on every call.
C24_StaticHeadersSent ==
  \A i \in 1..Len(requests) :
    requests[i].remoteCalls > 0
      => HeadersOf(requests[i]) = ConfiguredHeaders(local.options)


\* ------------------------------------------------------------------ C25
\* the required arguments of a definition that the supplied ones lack
AbsentRequired(declared, args) ==
  { i \in 1..Len(declared) :
      declared[i].required /\ ~\E j \in 1..Len(args) : args[j] = declared[i].name }

C25_Step ==
  /\ SettledCallsStay
  /\ (StartsCall /\ NewCall.op = "getPrompt") =>
       IF ~MapHas(prompts, NewCall.key)
       THEN NewCall.pc = "done" /\ NewCall.outcome = "NotFound"
            /\ NewCall.log = <<>>
       ELSE LET entry == MapGet(prompts, NewCall.key)
                declared == entry.definition.arguments
                absent == AbsentRequired(declared, NewCall.args)
            IN IF absent # {}
               THEN /\ NewCall.pc = "done"
                    /\ NewCall.outcome = "MissingArgument"
                    /\ NewCall.result
                         = <<declared[CHOOSE i \in absent :
                                        \A j \in absent : i <= j].name>>
                    /\ NewCall.log = <<>>
               ELSE /\ NewCall.outcome \notin {"NotFound", "MissingArgument"}
                    /\ NewCall.middlewares = entry.definition.middlewares
                    /\ NewCall.handler = entry.handler

\* the chain of a getPrompt that passed the checks
C25_ChainOf(c) ==
  LET mw == c.middlewares
      st == StagesOf(c)
      hs == HandlersOf(c)
      out(k) == IF k = 0 THEN c.args ELSE StageOutput(mw[k], st[k].input)
  IN /\ c.log = st \o hs
     /\ Len(st) <= Len(mw)
     /\ \A k \in 1..Len(st) : st[k].name = mw[k] /\ st[k].input = out(k - 1)
     /\ Len(hs) <= 1
     /\ Len(hs) = 1 =>
          /\ Len(st) = Len(mw)
          /\ hs[1].name = c.handler
          /\ hs[1].input = out(Len(mw))
     /\ (c.pc = "done" /\ c.outcome # "MiddlewareError") =>
          /\ Len(hs) = 1
          /\ [status |-> c.outcome, value |-> c.result]
               = PromptHandlerResult(c.handler, out(Len(mw)))

C25_State ==
  \A i \in 1..Len(calls) :
    (calls[i].op = "getPrompt"
       /\ calls[i].outcome \notin {"NotFound", "MissingArgument"})
    => C25_ChainOf(calls[i])

\* C25: getPrompt fails with NotFound when the name is not registered;
\* otherwise, if a required argument of the definition is absent from the
\* supplied arguments, it fails with MissingArgument naming the first such
\* argument in declaration order and invokes no middleware stage and no
\* handler; otherwise it runs the chain in registration order over the
\* arguments, invokes the handler once with the chain's output and returns
\* the handler's messages.
C25_GetPrompt == []C25_State /\ [][C25_Step]_vars


\* ------------------------------------------------------------------ C26
\* the chain of a readResource on a registered uri
C26_ChainOf(c) ==
  LET mw == c.middlewares
      st == StagesOf(c)
      hs == HandlersOf(c)
      out(k) == IF k = 0 THEN <<c.key>> ELSE StageOutput(mw[k], st[k].input)
  IN /\ c.log = st \o hs
     /\ Len(st) <= Len(mw)
     /\ \A k \in 1..Len(st) : st[k].name = mw[k] /\ st[k].input = out(k - 1)
     /\ \A k \in 1..(Len(st) - 1) : st[k].returned
     /\ Len(hs) <= 1
     /\ Len(hs) = 1 =>
          /\ Len(st) = Len(mw)
          /\ \A k \in 1..Len(st) : st[k].returned
          /\ hs[1].name = c.handler
          /\ hs[1].input = <<>>
     /\ (c.pc = "done" /\ c.outcome # "MiddlewareError") =>
          /\ Len(hs) = 1 /\ hs[1].returned
          /\ [status |-> c.outcome, value |-> c.result]
               = ReadHandlerResult(c.handler)

C26_State ==
  \A i \in 1..Len(calls) :
    (calls[i].op = "readResource" /\ calls[i].outcome # "NotFound")
    => C26_ChainOf(calls[i])

C26_Bind ==
  (StartsCall /\ NewCall.op = "readResource" /\ MapHas(resources, NewCall.key))
  => /\ NewCall.middlewares = MapGet(resources, NewCall.key).middlewares
     /\ NewCall.handler = MapGet(resources, NewCall.key).readHandler

\* C26: a readResource on a registered uri runs the resource's middleware
\* chain in registration order over a context that starts as {uri}, each
\* stage getting its predecessor's output, then invokes the read handler once,
\* with no argument, and returns the handler's content list: no stage sees
\* the content, and the content does not depend on what the stages return.
C26_ReadThroughChain == []C26_State /\ [][C26_Bind /\ SettledCallsStay]_vars

\* a read through a two-stage chain whose final context is not {uri}, ended
\* with the handler's content
C26_Witness ==
  \E i \in 1..Len(calls) :
    /\ calls[i].op = "readResource" /\ calls[i].pc = "done"
    /\ calls[i].outcome = "ok"
    /\ Len(calls[i].middlewares) = 2
    /\ calls[i].cur # <<calls[i].key>>
    /\ calls[i].result = ReadHandlerResult(calls[i].handler).value


\* ------------------------------------------------------------------ C27
\* the tool handler invocations the router made for a request
ToolHandlerRuns(r) ==
  SelectSeq(r.served, LAMBDA e : e.kind = "handler")

C27_State ==
  \A i \in 1..Len(requests) :
    /\ requests[i].remoteCalls <= 1
    /\ Len(ToolHandlerRuns(requests[i])) <= 1

C27_Step ==
  \A i \in 1..Len(requests) :
    /\ requests'[i].remoteCalls = requests[i].remoteCalls
    /\ requests[i].pc = "done" => requests'[i] = requests[i]

\* C27: the client never retries: a request causes at most one remote call,
\* and one local tools/call makes the router invoke the tool handler at most
\* once, also when the call fails at the client.
C27_NoRetry == []C27_State /\ [][C27_Step]_vars

\* a tools/call that failed at the client after the router had run the tool
\* handler for it, once
C27_Witness ==
  \E i \in 1..Len(requests) :
    /\ requests[i].method = "tools/call"
    /\ requests[i].pc = "done"
    /\ requests[i].failed
    /\ requests[i].error.code = "FETCH"
    /\ Len(ToolHandlerRuns(requests[i])) = 1
    /\ requests[i].remoteCalls = 1


\* ------------------------------------------------------------------ C28
\* the output of a definition's list handler, every item with the uri and
\* the name, description and mimeType of the definition
C28_ItemsOf(uri, def) ==
  LET items == ListHandlerResult(def.listHandler)
  IN [i \in 1..Len(items) |->
        [id |-> items[i].id, uri |-> uri, name |-> def.name,
         description |-> def.description, mimeType |-> def.mimeType]]

RECURSIVE C28_Listing(_)
C28_Listing(r) ==
  IF r = <<>> THEN <<>>
  ELSE C28_Listing(SubSeq(r, 1, Len(r) - 1))
         \o C28_ItemsOf(r[Len(r)].key, r[Len(r)].val)

RECURSIVE C28_Total(_)
C28_Total(r) ==
  IF r = <<>> THEN 0
  ELSE C28_Total(Tail(r)) + Len(ListHandlerResult(Head(r).val.listHandler))

\* a listing of the registry as it is
C28_State ==
  LET listed == ListRun(listResourcesStart(resources), resources).result
  IN /\ listed = C28_Listing(resources)
     /\ Len(listed) = C28_Total(resources)

\* a listing in flight: the loop binds the entry the iterator is at, and the
\* items its list handler resolves to are pushed with that entry's fields
C28_Step ==
  /\ (StartsCall /\ NewCall.op = "listResources" /\ resources # <<>>)
       => /\ NewCall.key = resources[1].key
          /\ NewCall.cur = <<resources[1].val>>
          /\ NewCall.result = <<>>
  /\ \A i \in 1..Len(calls) :
       (calls[i].op = "listResources" /\ calls'[i] # calls[i])
         => /\ calls'[i].result
                 = calls[i].result \o C28_ItemsOf(calls[i].key, calls[i].cur[1])
            /\ calls'[i].pc = "list" =>
                 /\ calls'[i].key = resources[calls'[i].idx].key
                 /\ calls'[i].cur = <<resources[calls'[i].idx].val>>

\* C28: listResources returns the concatenation, in registry order, of the
\* outputs of the registered resources' list handlers, every item with the
\* uri, name, description and mimeType of its definition in place of its own;
\* the number of items is the sum of the lengths of the handlers' outputs.
C28_ListResources == []C28_State /\ [][C28_Step]_vars

\* a listing that returned the one item of a resource without a description
\* and the two items of a resource with one
C28_Witness ==
  \E c \in 1..Len(calls) :
    /\ calls[c].op = "listResources" /\ calls[c].pc = "done"
    /\ Len(calls[c].result) = 3
    /\ calls[c].result[1].description = "undefined"
    /\ calls[c].result[1].mimeType = "text/plain"
    /\ calls[c].result[2].description = "d2"
    /\ calls[c].result[3].name = "n2"
    /\ calls[c].result[2].uri # calls[c].result[1].uri


\* ------------------------------------------------------------------ C29
\* the whole number a numeral writes
Written(s) ==
  CASE s = "0" -> 0 [] s = "1" -> 1 [] s = "2" -> 2 [] s = "3" -> 3
    [] s = "-2" -> 0 - 2

\* a whole number in decimal
WholeText(n) == IF n < 0 THEN "-" \o Digits(0 - n) ELSE Digits(n)

\* the text t is the text of the quotient of m by n
IsQuotientText(t, m, n) ==
  \E x \in { [nan |-> FALSE, num |-> p, den |-> q] : p \in (0 - 3)..3, q \in 1..3 } :
    /\ x.num * n = m * x.den
    /\ t = NumberText(x)

C29_Call(c) ==
  LET m == Written(c.args[2])
      n == Written(c.args[3])
  IN IF c.args[1] = "divide" /\ c.args[3] = "0"
     THEN c.outcome # "ok" /\ c.result = <<>>
     ELSE /\ c.outcome = "ok"
          /\ Len(c.result) = 1
          /\ c.result[1].type = "text"
          /\ CASE c.args[1] = "add" -> c.result[1].text = WholeText(m + n)
               [] c.args[1] = "subtract" -> c.result[1].text = WholeText(m - n)
               [] c.args[1] = "multiply" -> c.result[1].text = WholeText(m * n)
               [] c.args[1] = "divide" ->
                    IsQuotientText(c.result[1].text, m, n)

\* C29: the calculator tool returns, as one text content, the result of the
\* operation on the numbers written in a and b (add of "2" and "3" gives
\* "5"), and a divide with b "0" fails instead of returning a number.
C29_Calculator ==
  \A i \in 1..Len(calls) :
    (/\ calls[i].op = "callTool" /\ calls[i].key = "calculator"
     /\ calls[i].pc = "done" /\ calls[i].outcome # "NotFound"
     /\ calls[i].args[1] \in CalculatorOperations
     /\ calls[i].args[2] \in Numerals \ {"x"}
     /\ calls[i].args[3] \in Numerals \ {"x"})
    => C29_Call(calls[i])

\* add of "2" and "3" answered "5"
C29_Witness ==
  \E i \in 1..Len(calls) :
    /\ calls[i].op = "callTool" /\ calls[i].key = "calculator"
    /\ calls[i].args = <<"add", "2", "3">>
    /\ calls[i].pc = "done"
    /\ calls[i].outcome = "ok"
    /\ calls[i].result = << [type |-> "text", text |-> "5"] >>


\* ------------------------------------------------------------------ C30
\* C30: every uri that has a subscription entry names a registered resource
\* whose own subscribe flag is true, on a router whose resources.subscribe
\* capability is true.
C30_SubscribedAreSubscribable ==
  \A i \in 1..Len(subscriptions) :
    /\ capabilities.resources.subscribe
    /\ MapHas(resources, subscriptions[i].key)
    /\ MapGet(resources, subscriptions[i].key).subscribe


\* ------------------------------------------------------------------ C31
\* the subscription map after two more subscribes to uri and one unsubscribe
C31_TwiceThenOnce(uri) ==
  LET first == subscribeToResource(capabilities, resources, subscriptions, uri)
      second == subscribeToResource(capabilities, resources, first.subs, uri)
  IN [subscribed |-> first.outcome = "ok" /\ second.outcome = "ok",
      subs |-> unsubscribeFromResource(second.subs, uri).subs]

\* C31: the subscriber set stored for a uri is exactly {uri}, so
\* subscriptions are not counted: an unsubscribe leaves no entry for its uri,
\* also after the uri was subscribed to several times.
C31_SubscriptionsNotCounted ==
  /\ \A i \in 1..Len(subscriptions) :
       subscriptions[i].val = {subscriptions[i].key}
  /\ last.op = "unsubscribe" => ~MapHas(subscriptions, last.key)
  /\ \A uri \in Uris :
       C31_TwiceThenOnce(uri).subscribed
         => ~MapHas(C31_TwiceThenOnce(uri).subs, uri)

\* one unsubscribe removed the entry of a uri that two more subscribes would
\* have found subscribed, while another uri stays subscribed
C31_Witness ==
  /\ last.op = "unsubscribe"
  /\ MapHas(last.before.subscriptions, last.key)
  /\ ~MapHas(subscriptions, last.key)
  /\ C31_TwiceThenOnce(last.key).subscribed
  /\ subscriptions # <<>>

\* the entry of uri in a subscription map: absent, or the stored subscriber set
C32_EntryOf(subs, uri) ==
  IF MapHas(subs, uri) THEN <<MapGet(subs, uri)>> ELSE <<>>

\* a step of callTool, readResource, getPrompt or listResources (the call
\* starts, advances, succeeds or fails) or a listTools, listPrompts or
\* initialize call
C32_ReadOnlyStep ==
  \/ calls' # calls
  \/ last' # last /\ last'.op \in {"listTools", "listPrompts", "initialize"}

\* C32: registration is the only mutation path of the registries: callTool,
\* readResource, getPrompt, listTools, listResources, listPrompts and
\* initialize, succeeding or failing, leave the tool, resource and prompt
\* registries, the subscription map and the capabilities unchanged and emit no
\* notification; only subscribeToResource and unsubscribeFromResource change
\* the subscription map, and they change only the entry of their own uri.
C32_Step ==
  /\ capabilities' = capabilities
  /\ C32_ReadOnlyStep =>
       UNCHANGED <<tools, resources, prompts, subscriptions, streams, history>>
  /\ last' # last /\ last'.op \in {"subscribe", "unsubscribe"} =>
       UNCHANGED <<tools, resources, prompts, streams, history>>
  /\ subscriptions' # subscriptions =>
       /\ last'.op \in {"subscribe", "unsubscribe"}
       /\ last'.before.subscriptions = subscriptions
       /\ \A uri \in Uris \ {last'.key} :
            C32_EntryOf(subscriptions', uri) = C32_EntryOf(subscriptions, uri)

C32_RegistrationOnlyMutates == [][C32_Step]_vars

\* both uris are subscribed, a subscriber listens, one call failed and one
\* uri has just been unsubscribed while the other entry stayed
C32_Witness ==
  /\ last.op = "unsubscribe" /\ MapHas(last.before.subscriptions, last.key)
  /\ Len(last.before.subscriptions) = 2 /\ Len(subscriptions) = 1
  /\ Len(tools) = 1 /\ Len(resources) = 2 /\ Len(prompts) = 1
  /\ "s1" \in DOMAIN streams /\ Len(streams["s1"].queue) > 0
  /\ \E i \in 1..Len(calls) : calls[i].pc = "done"

\* the onError invocations made for request i
C33_CallbacksOf(i) == { n \in 1..Len(errorLog) : errorLog[n].request = i }

\* C33: the failure policy of RemoteMCPClient is the same for all nine
\* methods: when the remote call fails, the error callback runs (once, with
\* the request's method and the error) and the handler completes without
\* re-raising, so the local caller's request ends with an empty result and
\* not with an error.
C33_SameFailurePolicy ==
  /\ \A i \in 1..Len(requests) :
       requests[i].failed =>
         /\ requests[i].method \in HandledMethods
         /\ requests[i].pc = "done"
         /\ requests[i].response = [kind |-> "undefined", value |-> <<>>]
         /\ Cardinality(C33_CallbacksOf(i)) = 1
         /\ \A n \in C33_CallbacksOf(i) :
              /\ errorLog[n].method = requests[i].method
              /\ errorLog[n].error = requests[i].error
  /\ \A n \in 1..Len(errorLog) :
       errorLog[n].request \in 1..Len(requests)
         /\ requests[errorLog[n].request].failed

\* two requests of different methods failed, one at the endpoint and one
\* with an error of the router
C33_Witness ==
  /\ Len(requests) = 2 /\ Len(errorLog) = 2
  /\ requests[1].failed /\ requests[2].failed
  /\ requests[1].method # requests[2].method
  /\ requests[1].error.code = "FETCH" /\ requests[2].error.code # "FETCH"

\* C34: in the MCPClient variant, for every registered method handler, when
\* the remote call fails the onError callback is invoked with the error
\* before the failure is re-raised to the local caller.
C34_OnErrorBeforeRethrow ==
  \A i \in 1..Len(requests) :
    requests[i].failed /\ local.options.onError # Absent =>
      /\ requests[i].response = [kind |-> "error", value |-> <<requests[i].error>>]
      /\ \E n \in 1..Len(errorLog) :
           errorLog[n].request = i /\ errorLog[n].error = requests[i].error

\* the stages and the handler invoked for call c are those of the chain and
\* the handler c holds
C35_RunsOwnEntry(c) ==
  LET st == StagesOf(c)
      hs == HandlersOf(c)
  IN /\ Len(st) <= Len(c.middlewares)
     /\ \A k \in 1..Len(st) : st[k].name = c.middlewares[k]
     /\ \A k \in 1..Len(hs) : hs[k].name = c.handler
     /\ (c.pc = "done" /\ c.outcome # "MiddlewareError") =>
          Len(st) = Len(c.middlewares) /\ Len(hs) = 1

\* a started callTool holds the entry registered under its name at that
\* moment, and no later step, an addTool of that name included, changes what
\* a call holds
C35_Step ==
  /\ (StartsCall /\ NewCall.op = "callTool"
        /\ NewCall.outcome \notin {"NotFound", "ValidationError"}) =>
       /\ MapHas(tools, NewCall.key)
       /\ NewCall.middlewares = MapGet(tools, NewCall.key).definition.middlewares
       /\ NewCall.handler = MapGet(tools, NewCall.key).handler
  /\ \A i \in 1..Len(calls) :
       /\ calls'[i].middlewares = calls[i].middlewares
       /\ calls'[i].handler = calls[i].handler
       /\ calls'[i].key = calls[i].key

C35_State ==
  \A i \in 1..Len(calls) :
    (calls[i].op = "callTool"
       /\ calls[i].outcome \notin {"NotFound", "ValidationError"})
    => C35_RunsOwnEntry(calls[i])

\* C35: a callTool in flight is bound to the definition and handler that were
\* registered under its name when the call started: if addTool overwrites
\* that name while the call is waiting on a middleware stage, the call still
\* finishes with the old middleware chain and the old handler, and only calls
\* started after the addTool use the new ones.
C35_InFlightKeepsEntry == []C35_State /\ [][C35_Step]_vars

\* the name was overwritten while the first call was in flight: the second
\* call, started after the overwrite, has settled with the new handler, and
\* the first has gone through both stages of the entry it started with and
\* waits for that entry's handler
C35_Witness ==
  /\ Len(calls) = 2
  /\ calls[1].pc = "handler" /\ calls[1].handler = "h2"
  /\ Len(StagesOf(calls[1])) = 2
  /\ HandlersOf(calls[1])[1].name = "h2"
  /\ MapGet(tools, "t1").handler = "h1"
  /\ calls[2].handler = "h1" /\ calls[2].pc = "done" /\ calls[2].outcome = "ok"

\* the procedures a router constructed with these options is to expose
C36_Exposed(o) ==
  DOMAIN CoreProcedures
    \cup (IF o.capabilities.given /\ o.capabilities.logging # Absent
          THEN {"logging/setLevel"} ELSE {})

C36_State ==
  /\ \A i \in 1..Len(calls) :
       calls[i].op = "createTRPCRouter" =>
         DOMAIN calls[i].result[1] = C36_Exposed(options)
  /\ last.op = "ask" =>
       (last.outcome = "NOT_FOUND" <=> last.key \notin C36_Exposed(options))

\* C36: the set of procedures a created router exposes is fixed when it is
\* created and does not change afterwards: the nine core procedures are
\* always exposed, and the logging/setLevel procedure is exposed if and only
\* if the logging capability was configured at construction.
C36_ProceduresFixed == []C36_State /\ [][SettledCallsStay]_vars

\* a router created before a registration and one created after it, of a
\* server with logging, the first of which has just served logging/setLevel
C36_Witness ==
  /\ Len(calls) = 2 /\ tools # <<>>
  /\ options.capabilities.logging # Absent
  /\ calls[1].op = "createTRPCRouter" /\ calls[2].op = "createTRPCRouter"
  /\ last.op = "ask" /\ last.key = "logging/setLevel"
  /\ last.outcome = "served" /\ last.result = <<1>>

\* every request delivered so far has completed towards the local caller
C37_AllCompleted ==
  \A i \in 1..Len(requests) : requests[i].pc = "done"

\* a completed request carries the remote result, or the error callback ran
\* for it
C37_CompletedHow ==
  \A i \in 1..Len(requests) :
    (requests[i].pc = "done" /\ requests[i].method \in HandledMethods) =>
      \/ ~requests[i].failed /\ requests[i].response.kind = "result"
      \/ /\ requests[i].failed
         /\ \E n \in 1..Len(errorLog) : errorLog[n].request = i

\* C37: assuming every remote call eventually either returns or fails, every
\* request delivered to a Running client eventually completes towards the
\* local caller, with the remote result or after the error callback has run;
\* no request stays pending forever, whatever other requests are in flight.
\* Completion is final and requests are finitely many, so this is: again and
\* again no delivered request is pending.
C37_NoRequestPendingForever ==
  /\ []C37_CompletedHow
  /\ []<>C37_AllCompleted

\* two requests were in flight together; the later one failed and the
\* earlier one completed after it with the remote result
C37_Witness ==
  /\ Len(requests) = 2
  /\ requests[1].pc = "done" /\ ~requests[1].failed
  /\ requests[1].response.kind = "result"
  /\ requests[2].pc = "done" /\ requests[2].failed
  /\ errorLog # <<>> /\ errorLog[1].request = 2
  /\ requests[1].failuresBefore = 0 /\ requests[2].failuresBefore = 0

\* C38: when an MCPRouter is constructed with a logLevel L and no logger,
\* for each of the four levels DEBUG, INFO, WARN and ERROR the router's logger
\* uses L as its threshold, i.e. it prints a message of level M exactly when
\* L <= M; with no logLevel given the threshold is INFO.
C38_ThresholdIsLogLevel ==
  options.logger = <<>> =>
    LET L == IF options.logLevel = <<>> THEN INFO ELSE options.logLevel[1]
    IN /\ logger.kind = "console"
       /\ last.op = "log" =>
            (last.outcome = "printed" <=> L <= last.result[1])

====
